---------------------------- MODULE Spec2Model ----------------------------
(***************************************************************************)
(* memo8-cli: the `codebase index` command (src/src/commands/codebase.ts)  *)
(* with the API client it posts through (lib/api.ts) and the error handler *)
(* it ends in (lib/output.ts); `codebase clear` (same file),               *)
(* `context:update-claude-md` (commands/context.ts), `logout`, and the     *)
(* global and local config of lib/config.ts.                               *)
(*                                                                         *)
(* A file name is the sequence of its dot-separated components             *)
(* ("a.txt" is <<"a","txt">>, ".git" is <<"","git">>); a path is the       *)
(* sequence of its names.  File content is a sequence of runs of bytes of  *)
(* one class: "nul" (0x00), "ws" (ASCII whitespace), "txt" (printable      *)
(* ASCII), so that real byte offsets (8192, 524288, 4194304) are kept.     *)
(***************************************************************************)
EXTENDS Integers, Sequences, FiniteSets, TLC

VARIABLES
    pc,            \* position of the index action's control flow
    fs,            \* the directory tree under process.cwd(): path -> node
    projectId,     \* getProjectId(): 0 for null
    ig,            \* codebase.ts:139  the rules of the Ignore instance, in order
    stack,         \* the active calls of walkDirectory, innermost last
    filePaths,     \* codebase.ts:142
    readPos,       \* codebase.ts:158  position of `for (const filePath of filePaths)`
    listed,        \* the directories fs.readdirSync was called on
    allEntries,    \* codebase.ts:156  FileEntry[]
    k,             \* codebase.ts:194  position of `for (const entry of allEntries)`
    batches,       \* codebase.ts:190
    currentBatch,  \* codebase.ts:191
    currentSize,   \* codebase.ts:192
    i,             \* codebase.ts:213  batch index
    indexed,       \* codebase.ts:210
    spinnerText,   \* codebase.ts:211,232  progressSpinner.text
    inflight,      \* requests handed to axios and not yet settled
    serverLog,     \* every settled request with the server's answer, in order
    err,           \* the error thrown to the index loop's catch
    stdout,        \* lines printed by success / warn / info
    stderr,        \* lines printed by error()
    exitCode,      \* process exit code once the process has ended, else -1
    command,       \* the command the process was started with
    force,         \* codebase clear: opts.force
    answer,        \* codebase clear: the answer to the confirm prompt, "none" before it
    claudeMd,      \* the file .claude/CLAUDE.md
    mdBefore,      \* .claude/CLAUDE.md as it was when the process started
    run,           \* the number of the index run over the tree: 1, then 2
    firstScan,     \* what the first run walked, admitted and batched
    globalConfig,  \* ~/.memo8/config.json as loadGlobalConfig parses it
    cwd,           \* process.cwd() as an absolute path, <<>> for the root
    localFiles,    \* what each directory from the root to cwd has as .memo8.json
    lookupDir,     \* config.ts:33  `dir`, the directory loadLocalConfig stands at
    consulted,     \* the directories whose .memo8.json was looked for
    localConfig    \* what loadLocalConfig returned

scanVars  == <<fs, projectId, ig, stack, filePaths, readPos, listed>>
indexVars == <<allEntries, k, batches, currentBatch, currentSize, i, indexed, spinnerText>>
netVars   == <<inflight, serverLog, err>>
outVars   == <<stdout, stderr, exitCode>>
cliVars   == <<command, force, answer, claudeMd, mdBefore, run, firstScan>>
lookupVars == <<cwd, localFiles, lookupDir, consulted, localConfig>>
vars      == <<pc, scanVars, indexVars, netVars, outVars, cliVars, globalConfig, lookupVars>>

----------------------------------------------------------------------------
(* Program constants *)

MAX_BATCH_BYTES == 4194304
MAX_FILE_SIZE == 524288
BINARY_PROBE_BYTES == 8192
SHA256_HEX_LENGTH == 64
ENTRY_OVERHEAD == 100

(* Bounds of the model *)
MaxEntries == 4
\* the longest .claude/CLAUDE.md, in tokens
MaxMdTokens == 4

----------------------------------------------------------------------------
(* Generic helpers *)

RECURSIVE SumSeq(_)
SumSeq(s) == IF s = <<>> THEN 0 ELSE Head(s) + SumSeq(Tail(s))

RECURSIVE Flatten(_)
Flatten(ss) == IF ss = <<>> THEN <<>> ELSE Head(ss) \o Flatten(Tail(ss))

Min(a, b) == IF a < b THEN a ELSE b

\* String.prototype.length of the strings the model uses.
StrLen(s) ==
    CASE s = "" -> 0
      [] s \in {"a", "b", "c", "d", "e", "x"} -> 1
      [] s = "js" -> 2
      [] s \in {"txt", "bin", "map", "git", "sub", "foo", "big", "env"} -> 3
      [] s \in {"priv", "link"} -> 4
      [] s = "empty" -> 5
      [] s = "gitignore" -> 9
      [] s = "memo8ignore" -> 11
      [] s = "node_modules" -> 12

\* length of a file name: its components joined by "."
NameLen(name) == SumSeq([c \in 1..Len(name) |-> StrLen(name[c])]) + (Len(name) - 1)

\* length of path.relative(baseDir, filePath): the names joined by path.sep
PathLen(path) == SumSeq([c \in 1..Len(path) |-> NameLen(path[c])]) + (Len(path) - 1)

\* buf.length: the number of bytes of file content given as runs
BufferLength(content) == SumSeq([c \in 1..Len(content) |-> content[c].n])

\* buf.toString('utf-8'): ASCII bytes decode to themselves, every byte that is
\* not valid UTF-8 ("bad") to one U+FFFD
Utf8Decode(content) ==
    [c \in 1..Len(content) |->
        IF content[c].b = "bad" THEN [b |-> "fffd", n |-> content[c].n] ELSE content[c]]

\* Buffer.byteLength(text, 'utf-8'): U+FFFD encodes to three bytes
ByteLength(text) ==
    SumSeq([c \in 1..Len(text) |-> text[c].n * (IF text[c].b = "fffd" THEN 3 ELSE 1)])

\* crypto.createHash('sha256').update(content).digest('hex'): a digest that
\* stands for the content it was computed from (no collisions).
Sha256Hex(content) == [sha256 |-> content]

FileEntry(path, content) ==
    [file_path |-> path, file_hash |-> Sha256Hex(content), content |-> content]

----------------------------------------------------------------------------
(* The API client, lib/api.ts (src/unnamed/part_006) *)

NoResponse == [present |-> FALSE, status |-> 0]
HttpResponse(status) == [present |-> TRUE, status |-> status]

\* What axios hands to the response interceptor for one request: a 2xx
\* response, an HTTP error response, or a transport failure without response.
\* `dataMessage` is response.data.message ("" when the body has none).
AxiosOk ==
    [ok |-> TRUE, code |-> "", response |-> HttpResponse(200), fieldErrors |-> 0,
     dataMessage |-> ""]
AxiosHttpError(status, nFieldErrors) ==
    [ok |-> FALSE, code |-> "ERR_BAD_RESPONSE", response |-> HttpResponse(status),
     fieldErrors |-> nFieldErrors, dataMessage |-> ""]
AxiosTransportError(code) ==
    [ok |-> FALSE, code |-> code, response |-> NoResponse, fieldErrors |-> 0,
     dataMessage |-> ""]

AxiosOutcomes ==
    {AxiosOk}
    \cup {AxiosHttpError(s, 0) : s \in {413, 401, 500}}
    \cup {AxiosHttpError(422, n) : n \in {0, 1}}
    \cup {AxiosTransportError(c) : c \in {"ECONNREFUSED", "ECONNABORTED"}}

\* class ApiError / ValidationError (api.ts:4-24): name, status, errors; an
\* ApiError has no `response` property.
ApiError(message, status) ==
    [name |-> "ApiError", message |-> message, status |-> status, response |-> NoResponse,
     isError |-> TRUE, hasErrors |-> FALSE, fieldErrors |-> 0]
ValidationError(message, nFieldErrors) ==
    [name |-> "ValidationError", message |-> message, status |-> 422, response |-> NoResponse,
     isError |-> TRUE, hasErrors |-> TRUE, fieldErrors |-> nFieldErrors]
NoError ==
    [name |-> "", message |-> "", status |-> 0, response |-> NoResponse,
     isError |-> FALSE, hasErrors |-> FALSE, fieldErrors |-> 0]

\* the messages of the errors the interceptor throws (api.ts:61, 72, 80, 85);
\* AxiosMessage is error.message as axios sets it
CannotConnect == "Cannot connect to API. Is the server running?"
SessionExpired == "Session expired. Please login again with: memo8 login"
ValidationFailed == "Validation failed"
AxiosMessage == "Request failed"
\* a message of the server's that has the words 'Session expired' in it
ServerExpiredMessage == "Session expired"

\* message.includes('Session expired')
IncludesSessionExpired(message) == message \in {SessionExpired, ServerExpiredMessage}

\* the outcomes of one request; for /logout, whose caller reads the message
\* of the error, also a failure whose body carries a message of the server's
OutcomesFor(request) ==
    AxiosOutcomes
    \cup (IF request.url = "logout"
          THEN {[AxiosHttpError(500, 0) EXCEPT !.dataMessage = ServerExpiredMessage]}
          ELSE {})

\* the rejected-handler of instance.interceptors.response (api.ts:58-89):
\* the error it throws for the axios error `e`
ResponseInterceptor(e) ==
    IF e.code \in {"ECONNREFUSED", "ENOTFOUND"} THEN ApiError(CannotConnect, 0)
    ELSE IF e.response.present /\ e.response.status = 401 THEN ApiError(SessionExpired, 401)
    ELSE IF e.response.present /\ e.response.status = 422
         THEN ValidationError(IF e.dataMessage # "" THEN e.dataMessage ELSE ValidationFailed,
                              e.fieldErrors)
    ELSE ApiError(IF e.dataMessage # "" THEN e.dataMessage ELSE AxiosMessage,
                  IF e.response.present THEN e.response.status ELSE 0)

\* the rejected-handler calls clearAuth() before it throws (api.ts:69-70)
InterceptorClearsAuth(e) ==
    /\ e.code \notin {"ECONNREFUSED", "ENOTFOUND"}
    /\ e.response.present
    /\ e.response.status = 401

----------------------------------------------------------------------------
(* The global config, lib/config.ts *)

\* a key the config does not have
Absent == "absent"

\* the config of a logged-in user with a team and an API URL of their own
LoggedInConfig ==
    [apiUrl |-> "https://api.example", token |-> "token", user |-> "user", teamId |-> "7"]

\* every config: each key there or not
GlobalConfigs ==
    [apiUrl : {Absent, "https://api.example"}, token : {Absent, "token"},
     user : {Absent, "user"}, teamId : {Absent, "7"}]

\* mutant of ClearAuth: the team id is kept
ClearAuthKeepsTeam(config) == [config EXCEPT !.token = Absent, !.user = Absent]

\* clearAuth, config.ts:98-104: load, delete token, user and teamId, save
ClearAuth(config) == [config EXCEPT !.token = Absent, !.user = Absent, !.teamId = Absent]

----------------------------------------------------------------------------
(* The local config, lib/config.ts:32-49, and getProjectId, 72-75 *)

\* the longest working directory looked at has MaxDepth names below the root
MaxDepth == 3
DirNames == <<"home", "user", "work", "project", "packages", "app">>
DeepestCwd == SubSeq(DirNames, 1, MaxDepth)

\* path.parse(dir).root: the root of an absolute path
RootOf(path) == <<>>

\* path.dirname: the path without its last name; the root's dirname is the root
Dirname(path) == IF path = <<>> THEN <<>> ELSE SubSeq(path, 1, Len(path) - 1)

\* the directories from the root down to `path`
Ancestors(path) == {SubSeq(path, 1, n) : n \in 0..Len(path)}

\* what a directory has under the name .memo8.json: nothing; something that
\* cannot be read or parsed; the text {}; a config with a projectId
LocalFileKinds == {"missing", "unparsable", "empty", "project"}

\* the parsed configs; a config without projectId has 0 for it
EmptyConfig == [projectId |-> 0]
\* the projectId in the file of the directory `path`, one for each directory
ProjectIdIn(path) == Len(path) + 1

\* fs.existsSync(configPath), config.ts:38
ExistsSync(path) == localFiles[path] # "missing"

\* config.ts:39-44: try { return JSON.parse(readFileSync) } catch { return {} }
ReadLocalConfig(path) ==
    IF localFiles[path] = "project" THEN [projectId |-> ProjectIdIn(path)] ELSE EmptyConfig

\* mutant of WalksOn: the root is looked into as well
WalksOnAtRoot(d, root) == TRUE

\* config.ts:36: while (dir !== root)
WalksOn(d, root) == d # root

\* no lookup is running
NoLookup ==
    /\ cwd = <<>>
    /\ localFiles = [d \in Ancestors(<<>>) |-> "missing"]
    /\ lookupDir = <<>>
    /\ consulted = {}
    /\ localConfig = EmptyConfig

\* config.ts:36-46: one turn of the loop
LookupStep ==
    /\ pc = "lookup"
    /\ WalksOn(lookupDir, RootOf(cwd))
    /\ consulted' = consulted \cup {lookupDir}
    /\ IF ExistsSync(lookupDir)
       THEN /\ localConfig' = ReadLocalConfig(lookupDir)
            /\ pc' = "looked_up"
            /\ lookupDir' = lookupDir
       ELSE /\ lookupDir' = Dirname(lookupDir)
            /\ UNCHANGED <<localConfig, pc>>
    /\ UNCHANGED <<cwd, localFiles, projectId, fs, ig, stack, filePaths, readPos, listed,
                   indexVars, netVars, outVars, cliVars, globalConfig>>

\* config.ts:36, 48: the loop ends at the root, return {}
LookupEnd ==
    /\ pc = "lookup"
    /\ ~WalksOn(lookupDir, RootOf(cwd))
    /\ localConfig' = EmptyConfig
    /\ pc' = "looked_up"
    /\ UNCHANGED <<lookupVars, projectId, fs, ig, stack, filePaths, readPos, listed,
                   indexVars, netVars, outVars, cliVars, globalConfig>>

\* config.ts:72-75: return loadLocalConfig().projectId || null
GetProjectId ==
    /\ pc = "looked_up"
    /\ projectId' = localConfig.projectId
    /\ pc' = "done"
    /\ UNCHANGED <<lookupVars, fs, ig, stack, filePaths, readPos, listed,
                   indexVars, netVars, outVars, cliVars, globalConfig>>

----------------------------------------------------------------------------
(* Ignore rules: the `ignore` package as loadGitignore (codebase.ts:75-92)  *)
(* fills it and walkDirectory asks it.  A pattern line is an optional       *)
(* leading "!", a glob for one path segment, and an optional trailing "/";  *)
(* a glob is a name in which one component may be "*".                      *)

Line(bang, glob, slash) == [bang |-> bang, glob |-> glob, slash |-> slash]
Pattern(glob) == Line(FALSE, glob, FALSE)

\* codebase.ts:33-67
DEFAULT_IGNORE ==
    << Pattern(<<"node_modules">>), Pattern(<<"", "git">>), Pattern(<<"vendor">>),
       Pattern(<<"dist">>), Pattern(<<"build">>), Pattern(<<"", "next">>),
       Pattern(<<"storage">>), Pattern(<<"", "DS_Store">>), Pattern(<<"*", "lock">>),
       Pattern(<<"package-lock", "json">>), Pattern(<<"composer", "lock">>),
       Pattern(<<"*", "min", "js">>), Pattern(<<"*", "min", "css">>),
       Pattern(<<"*", "map">>), Pattern(<<"*", "png">>), Pattern(<<"*", "jpg">>),
       Pattern(<<"*", "jpeg">>), Pattern(<<"*", "gif">>), Pattern(<<"*", "svg">>),
       Pattern(<<"*", "ico">>), Pattern(<<"*", "woff">>), Pattern(<<"*", "woff2">>),
       Pattern(<<"*", "ttf">>), Pattern(<<"*", "eot">>), Pattern(<<"*", "pdf">>),
       Pattern(<<"*", "zip">>), Pattern(<<"*", "tar", "gz">>), Pattern(<<"*", "sqlite">>),
       Pattern(<<"*", "db">>), Pattern(<<"*", "pyc">>), Pattern(<<"", "env">>),
       Pattern(<<"", "env", "*">>), Pattern(<<"", "memo8", "json">>) >>

\* ig.add(lines): every line becomes a rule, after the rules already there
MakeRule(line) == [negative |-> line.bang, dirOnly |-> line.slash, glob |-> line.glob]
AddRules(rules, lines) == rules \o [c \in 1..Len(lines) |-> MakeRule(lines[c])]

\* "*" stands for any text without "/", dots included: one or more components
GlobMatches(glob, name) ==
    IF \E q \in 1..Len(glob) : glob[q] = "*"
    THEN LET q == CHOOSE q \in 1..Len(glob) : glob[q] = "*"
             rest == Len(glob) - q
         IN  /\ Len(name) >= Len(glob)
             /\ \A c \in 1..(q - 1) : name[c] = glob[c]
             /\ \A c \in 1..rest : name[Len(name) - rest + c] = glob[q + c]
    ELSE glob = name

\* a rule without "/" inside matches the last segment of the path; a rule
\* with a trailing "/" only a path given with a trailing "/"
RuleMatches(rule, path, asDir) ==
    /\ rule.dirOnly => asDir
    /\ GlobMatches(rule.glob, path[Len(path)])

\* the last matching rule decides
TestOne(rules, path, asDir) ==
    LET matching == {c \in 1..Len(rules) : RuleMatches(rules[c], path, asDir)}
    IN  /\ matching # {}
        /\ ~rules[CHOOSE c \in matching : \A x \in matching : x <= c].negative

\* ig.ignores(path): a path below an ignored directory is ignored and cannot
\* be re-included; otherwise the rules are tested on the path itself
RECURSIVE Ignores(_, _, _)
Ignores(rules, path, asDir) ==
    \/ Len(path) > 1 /\ Ignores(rules, SubSeq(path, 1, Len(path) - 1), TRUE)
    \/ TestOne(rules, path, asDir)

----------------------------------------------------------------------------
(* The directory tree *)

Dir(entries, readable) ==
    [kind |-> "dir", readable |-> readable, entries |-> entries, content |-> <<>>, lines |-> <<>>]
File(content) ==
    [kind |-> "file", readable |-> TRUE, entries |-> <<>>, content |-> content, lines |-> <<>>]
\* a regular file fs.statSync succeeds on and fs.readFileSync throws on
UnreadableFile(content) == [File(content) EXCEPT !.readable = FALSE]
\* a symbolic link: a Dirent that is neither a directory nor a regular file
Symlink(target) ==
    [kind |-> "symlink", readable |-> TRUE, entries |-> <<>>, content |-> <<>>, lines |-> <<>>,
     target |-> target]
\* an ignore file: its pattern lines, eight bytes of text each
IgnoreFile(lines) ==
    [kind |-> "file", readable |-> TRUE, entries |-> <<>>,
     content |-> <<[b |-> "txt", n |-> 8 * Len(lines)]>>, lines |-> lines]

GITIGNORE == <<"", "gitignore">>
MEMO8IGNORE == <<"", "memo8ignore">>
A_TXT == <<"a", "txt">>
B_BIN == <<"b", "bin">>
B_TXT == <<"b", "txt">>
C_TXT == <<"c", "txt">>
BIG_TXT == <<"big", "txt">>
EMPTY_TXT == <<"empty", "txt">>
FOO == <<"foo">>
NODE_MODULES == <<"node_modules">>
PRIV == <<"priv">>
LINK == <<"link">>
SUB == <<"sub">>
X_JS == <<"x", "js">>
X_MAP == <<"x", "map">>

Text(n) == <<[b |-> "txt", n |-> n]>>

\* contents of a.txt: around the binary probe and the empty test
AdmissionContents ==
    { Text(10),
      <<>>,
      <<[b |-> "ws", n |-> 3]>>,
      <<[b |-> "ws", n |-> 1], [b |-> "txt", n |-> 1], [b |-> "ws", n |-> 1]>>,
      <<[b |-> "nul", n |-> 1], [b |-> "txt", n |-> 9]>>,
      <<[b |-> "txt", n |-> BINARY_PROBE_BYTES - 1], [b |-> "nul", n |-> 1]>>,
      <<[b |-> "txt", n |-> BINARY_PROBE_BYTES], [b |-> "nul", n |-> 1]>>,
      <<[b |-> "ws", n |-> BINARY_PROBE_BYTES], [b |-> "nul", n |-> 1]>>,
      <<[b |-> "bad", n |-> 2]>> }

GitignoreChoices ==
    { <<>>,
      <<Pattern(SUB)>>,
      <<Line(TRUE, <<"*", "map">>, FALSE)>> }

Memo8ignoreChoices ==
    { <<>>,
      <<Line(TRUE, <<"*", "map">>, FALSE)>>,
      <<Line(TRUE, X_MAP, FALSE), Pattern(<<"*", "js">>)>>,
      <<Pattern(<<"*", "map">>)>>,
      <<Line(FALSE, FOO, TRUE)>>,
      <<Line(TRUE, NODE_MODULES, FALSE)>>,
      <<Pattern(<<"*">>)>> }

\* The tree of one run.  Always there: a.txt, b.bin (a null byte), empty.txt
\* (zero bytes), node_modules/x.js.  With `extras`: big.txt, foo (a directory
\* holding c.txt, or a regular file), node_modules/priv (unreadable), sub
\* (holding b.txt, which can be read or not, and link, a symbolic link to the
\* root; readable or not), x.map.
Tree(p) ==
    LET ignoreFiles ==
            (IF p.gitignore # <<>> THEN <<GITIGNORE>> ELSE <<>>)
            \o (IF p.memo8ignore # <<>> THEN <<MEMO8IGNORE>> ELSE <<>>)
        rootEntries ==
            IF p.extras
            THEN ignoreFiles \o <<A_TXT, B_BIN, BIG_TXT, EMPTY_TXT, FOO, NODE_MODULES, SUB, X_MAP>>
            ELSE ignoreFiles \o <<A_TXT, B_BIN, EMPTY_TXT, NODE_MODULES>>
        base ==
            (<<>> :> Dir(rootEntries, TRUE))
            @@ (<<A_TXT>> :> File(p.aContent))
            @@ (<<B_BIN>> :> File(<<[b |-> "txt", n |-> 4], [b |-> "nul", n |-> 1]>>))
            @@ (<<EMPTY_TXT>> :> File(<<>>))
            @@ (<<NODE_MODULES>> :> Dir(IF p.extras THEN <<PRIV, X_JS>> ELSE <<X_JS>>, TRUE))
            @@ (<<NODE_MODULES, X_JS>> :> File(Text(20)))
        git == IF p.gitignore # <<>> THEN <<GITIGNORE>> :> IgnoreFile(p.gitignore) ELSE <<>>
        memo == IF p.memo8ignore # <<>> THEN <<MEMO8IGNORE>> :> IgnoreFile(p.memo8ignore) ELSE <<>>
        extras ==
            (<<BIG_TXT>> :> File(Text(p.bigLen)))
            @@ (<<FOO>> :> IF p.fooIsDir THEN Dir(<<C_TXT>>, TRUE) ELSE File(Text(3)))
            @@ (IF p.fooIsDir THEN <<FOO, C_TXT>> :> File(Text(5)) ELSE <<>>)
            @@ (<<NODE_MODULES, PRIV>> :> Dir(<<>>, FALSE))
            @@ (<<SUB>> :> Dir(<<B_TXT, LINK>>, p.subReadable))
            @@ (<<SUB, LINK>> :> Symlink(<<>>))
            @@ (<<SUB, B_TXT>> :> IF p.bReadable THEN File(Text(7)) ELSE UnreadableFile(Text(7)))
            @@ (<<X_MAP>> :> File(Text(30)))
    IN  base @@ git @@ memo @@ (IF p.extras THEN extras ELSE <<>>)

TreeParams ==
    {p \in [aContent : AdmissionContents, gitignore : GitignoreChoices,
            memo8ignore : Memo8ignoreChoices, extras : {TRUE}, fooIsDir : BOOLEAN,
            subReadable : BOOLEAN, bReadable : BOOLEAN,
            bigLen : {MAX_FILE_SIZE, MAX_FILE_SIZE + 1}] :
        ~p.subReadable => p.bReadable}
    \cup
    [aContent : AdmissionContents, gitignore : GitignoreChoices, memo8ignore : Memo8ignoreChoices,
     extras : {FALSE}, fooIsDir : {FALSE}, subReadable : {TRUE}, bReadable : {TRUE},
     bigLen : {MAX_FILE_SIZE}]

\* the root of the end-to-end scenario: a.txt (10 bytes of text), b.bin,
\* empty.txt, node_modules/x.js, no ignore files
ScenarioTree ==
    Tree([aContent |-> Text(10), gitignore |-> <<>>, memo8ignore |-> <<>>,
          extras |-> FALSE, fooIsDir |-> FALSE, subReadable |-> TRUE, bReadable |-> TRUE,
          bigLen |-> MAX_FILE_SIZE])

\* fs.existsSync
Exists(path) == path \in DOMAIN fs
\* stat.size
StatSize(path) == BufferLength(fs[path].content)

\* .claude/CLAUDE.md does not exist
NoFile == [exists |-> FALSE, text |-> <<>>]

\* no earlier run
NoScan == [filePaths |-> <<>>, allEntries |-> <<>>, batches |-> <<>>]

----------------------------------------------------------------------------
(* codebase.ts:131-150: project guard, ignore rules, directory walk *)

Line_Warn == [level |-> "warn", files |-> 0, batches |-> 0]

\* codebase.ts:132-136
GetProject ==
    /\ pc = "start"
    /\ command = "index"
    /\ IF projectId = 0
       THEN /\ stdout' = Append(stdout, Line_Warn)
            /\ exitCode' = 0
            /\ pc' = "done"
       ELSE /\ pc' = "load"
            /\ UNCHANGED <<stdout, exitCode>>
    /\ UNCHANGED <<lookupVars, globalConfig, cliVars, scanVars, indexVars, netVars, stderr>>

\* the pattern lines of the ignore file `name` at the root, none if it is absent
LinesOf(name) == IF Exists(<<name>>) THEN fs[<<name>>].lines ELSE <<>>

\* mutant of LoadedRules: the defaults are added last
LoadedRulesDefaultsLast ==
    AddRules(AddRules(AddRules(<<>>, LinesOf(GITIGNORE)), LinesOf(MEMO8IGNORE)), DEFAULT_IGNORE)

\* loadGitignore, codebase.ts:75-92
LoadedRules ==
    AddRules(AddRules(AddRules(<<>>, DEFAULT_IGNORE), LinesOf(GITIGNORE)), LinesOf(MEMO8IGNORE))

LoadGitignore ==
    /\ pc = "load"
    /\ ig' = LoadedRules
    /\ pc' = "walk"
    /\ UNCHANGED <<lookupVars, globalConfig, cliVars, fs, projectId, stack, filePaths, readPos, listed, indexVars, netVars, outVars>>

Reverse(seq) == [c \in 1..Len(seq) |-> seq[Len(seq) + 1 - c]]

\* mutant of Frame: readdirSync lists a directory in another order the next time
FrameOrderChanges(dir) ==
    [dir |-> dir, entries |-> IF run = 1 THEN fs[dir].entries ELSE Reverse(fs[dir].entries),
     idx |-> 1, files |-> <<>>]

\* codebase.ts:95-98: a call of walkDirectory on `dir`, its readdirSync done;
\* the entries of an unchanged directory come in the same order every time
Frame(dir) == [dir |-> dir, entries |-> fs[dir].entries, idx |-> 1, files |-> <<>>]

\* an error thrown by fs (readdirSync on a directory that cannot be read)
FsError ==
    [name |-> "Error", status |-> 0, response |-> NoResponse,
     isError |-> TRUE, hasErrors |-> FALSE, fieldErrors |-> 0]

\* codebase.ts:142 and 95-96: the call walkDirectory(baseDir, ig, baseDir)
WalkStart ==
    /\ pc = "walk"
    /\ stack = <<>>
    /\ listed' = listed \cup {<<>>}
    /\ stack' = <<Frame(<<>>)>>
    /\ pc' = "walking"
    /\ UNCHANGED <<lookupVars, globalConfig, cliVars, fs, projectId, ig, filePaths, readPos, indexVars, netVars, outVars>>

\* mutant of Prunes: the rules filter files and never stop the descent
PrunesFilesOnly(rules, rel, isDir) == ~isDir /\ Ignores(rules, rel, FALSE)

\* another mutant: a directory is tested by its bare path only
PrunesBarePathOnly(rules, rel, isDir) == Ignores(rules, rel, FALSE)

\* codebase.ts:102-108: the entry is skipped; a directory is tested as a bare
\* relative path and with a trailing slash
Prunes(rules, rel, isDir) ==
    \/ Ignores(rules, rel, FALSE)
    \/ isDir /\ Ignores(rules, rel, TRUE)

\* mutant of IsFile: a symbolic link counts as a file
IsFileOrLink(node) == node.kind \in {"file", "symlink"}

\* codebase.ts:106,111: Dirent.isDirectory(), Dirent.isFile()
IsDirectory(node) == node.kind = "dir"
IsFile(node) == node.kind = "file"

\* mutant of WithinSize: a file of exactly the threshold is left out
WithinSizeStrict(size) == size < MAX_FILE_SIZE

\* codebase.ts:113: stat.size <= MAX_FILE_SIZE
WithinSize(size) == size <= MAX_FILE_SIZE

\* codebase.ts:98-117: one entry of the innermost walkDirectory call.  The
\* recursive call starts with readdirSync, which throws on a directory that
\* cannot be read; no frame catches, so the error reaches the action's catch.
WalkEntry ==
    /\ pc = "walking"
    /\ LET top == stack[Len(stack)]
           rel == top.dir \o <<top.entries[top.idx]>>
           node == fs[rel]
           next == [top EXCEPT !.idx = @ + 1]
           below == SubSeq(stack, 1, Len(stack) - 1)
       IN  /\ top.idx <= Len(top.entries)
           /\ IF Prunes(ig, rel, IsDirectory(node))
              THEN /\ stack' = Append(below, next)
                   /\ UNCHANGED <<listed, pc, err>>
              ELSE IF IsDirectory(node)
              THEN /\ listed' = listed \cup {rel}
                   /\ IF node.readable
                      THEN /\ stack' = Append(Append(below, next), Frame(rel))
                           /\ UNCHANGED <<pc, err>>
                      ELSE /\ stack' = <<>>
                           /\ err' = FsError
                           /\ pc' = "throw"
              ELSE IF IsFile(node)
              THEN /\ stack' = Append(below,
                          IF WithinSize(StatSize(rel))
                          THEN [next EXCEPT !.files = Append(@, rel)] ELSE next)
                   /\ UNCHANGED <<listed, pc, err>>
              ELSE /\ stack' = Append(below, next)
                   /\ UNCHANGED <<listed, pc, err>>
    /\ UNCHANGED <<lookupVars, globalConfig, cliVars, fs, projectId, ig, filePaths, readPos, indexVars, inflight, serverLog, outVars>>

\* codebase.ts:119 with 109 and 142: the innermost call returns its files
WalkReturn ==
    /\ pc = "walking"
    /\ LET top == stack[Len(stack)]
           below == SubSeq(stack, 1, Len(stack) - 1)
       IN  /\ top.idx > Len(top.entries)
           /\ IF below = <<>>
              THEN /\ filePaths' = top.files
                   /\ stack' = <<>>
                   /\ pc' = "walked"
              ELSE /\ stack' = [below EXCEPT ![Len(below)].files = @ \o top.files]
                   /\ UNCHANGED <<filePaths, pc>>
    /\ UNCHANGED <<lookupVars, globalConfig, cliVars, fs, projectId, ig, readPos, listed, indexVars, netVars, outVars>>

\* codebase.ts:143-156
AfterWalk ==
    /\ pc = "walked"
    /\ LET found == [level |-> "info", files |-> Len(filePaths), batches |-> 0]
       IN  IF Len(filePaths) = 0
           THEN /\ stdout' = stdout \o <<found, Line_Warn>>
                /\ exitCode' = 0
                /\ pc' = "done"
                /\ UNCHANGED readPos
           ELSE /\ stdout' = Append(stdout, found)
                /\ readPos' = 1
                /\ pc' = "read"
                /\ UNCHANGED exitCode
    /\ UNCHANGED <<lookupVars, globalConfig, cliVars, fs, projectId, ig, stack, filePaths, listed, indexVars, netVars, stderr>>

----------------------------------------------------------------------------
(* codebase.ts:158-181: the admission filter *)

\* the number of bytes before run c
OffsetOf(buf, c) == SumSeq([x \in 1..(c - 1) |-> buf[x].n])

\* mutant of HasNulInProbe: the whole buffer is searched
HasNulAnywhere(buf) == \E c \in 1..Len(buf) : buf[c].b = "nul" /\ buf[c].n > 0

\* mutant of HasNulInProbe: only the first byte is looked at
HasNulAtStart(buf) == Len(buf) > 0 /\ buf[1].b = "nul" /\ buf[1].n > 0

\* codebase.ts:162: buf.subarray(0, 8192).includes(0)
HasNulInProbe(buf) ==
    \E c \in 1..Len(buf) :
        buf[c].b = "nul" /\ buf[c].n > 0 /\ OffsetOf(buf, c) < BINARY_PROBE_BYTES

\* codebase.ts:167: !content.trim()
TrimmedEmpty(text) == \A c \in 1..Len(text) : text[c].n = 0 \/ text[c].b = "ws"

\* mutant of AfterReadFailure: the try block is around the whole loop, a
\* failed read ends it
AfterReadFailureEndsLoop(pos) == Len(filePaths) + 1

\* codebase.ts:159,178-180: the try/catch is inside the loop body, so after a
\* failed read the loop goes on with the next file
AfterReadFailure(pos) == pos + 1

\* one iteration of `for (const filePath of filePaths)`
ReadFile ==
    /\ pc = "read"
    /\ readPos <= Len(filePaths)
    /\ LET filePath == filePaths[readPos]
           buf == fs[filePath].content
           content == Utf8Decode(buf)
       IN  IF ~fs[filePath].readable
           THEN /\ allEntries' = allEntries
                /\ readPos' = AfterReadFailure(readPos)
           ELSE /\ allEntries' =
                     IF HasNulInProbe(buf) THEN allEntries
                     ELSE IF TrimmedEmpty(content) THEN allEntries
                     ELSE Append(allEntries, FileEntry(filePath, content))
                /\ readPos' = readPos + 1
    /\ UNCHANGED <<lookupVars, globalConfig, cliVars, pc, fs, projectId, ig, stack, filePaths, listed, k, batches, currentBatch,
                   currentSize, i, indexed, spinnerText, netVars, outVars>>

----------------------------------------------------------------------------
(* codebase.ts:183-187: nothing admitted, warn and return *)

\* mutant of CheckIndexable: the guard is left out
CheckIndexableNoGuard ==
    /\ pc = "read"
    /\ readPos > Len(filePaths)
    /\ pc' = "batch"
    /\ UNCHANGED <<lookupVars, globalConfig, cliVars, scanVars, indexVars, netVars, outVars>>

CheckIndexable ==
    /\ pc = "read"
    /\ readPos > Len(filePaths)
    /\ IF Len(allEntries) = 0
       THEN /\ stdout' = Append(stdout, Line_Warn)
            /\ exitCode' = 0
            /\ pc' = "done"
       ELSE /\ pc' = "batch"
            /\ UNCHANGED <<stdout, exitCode>>
    /\ UNCHANGED <<lookupVars, globalConfig, cliVars, scanVars, indexVars, netVars, stderr>>

----------------------------------------------------------------------------
(* Batch construction, codebase.ts:189-208 *)

EntrySize(entry) ==
    ByteLength(entry.content) + PathLen(entry.file_path) + SHA256_HEX_LENGTH + ENTRY_OVERHEAD

BatchSize(batch) == SumSeq([c \in 1..Len(batch) |-> EntrySize(batch[c])])

\* mutants of ClosesBatch: the ceiling tested before the entry is counted; the
\* test for a non-empty running batch left out
ClosesBatchAfterOverflow(batch, size, entrySize) ==
    Len(batch) > 0 /\ size > MAX_BATCH_BYTES
ClosesBatchWhenEmpty(batch, size, entrySize) ==
    size + entrySize > MAX_BATCH_BYTES
\* another mutant: the batch is closed when the entry would fill it exactly
ClosesBatchAtCeiling(batch, size, entrySize) ==
    Len(batch) > 0 /\ size + entrySize >= MAX_BATCH_BYTES

\* the condition of the `if` at codebase.ts:197
ClosesBatch(batch, size, entrySize) ==
    Len(batch) > 0 /\ size + entrySize > MAX_BATCH_BYTES

\* mutant of BatchEntry: the running batch is pushed but not restarted
BatchEntryKeepsRunning ==
    /\ pc = "batch"
    /\ k <= Len(allEntries)
    /\ LET entry == allEntries[k]
           entrySize == EntrySize(entry)
           close == ClosesBatch(currentBatch, currentSize, entrySize)
       IN  /\ batches' = IF close THEN Append(batches, currentBatch) ELSE batches
           /\ currentBatch' = Append(currentBatch, entry)
           /\ currentSize' = (IF close THEN 0 ELSE currentSize) + entrySize
    /\ k' = k + 1
    /\ UNCHANGED <<lookupVars, globalConfig, cliVars, scanVars, pc, allEntries, i, indexed, spinnerText, netVars, outVars>>

\* one iteration of `for (const entry of allEntries)`
BatchEntry ==
    /\ pc = "batch"
    /\ k <= Len(allEntries)
    /\ LET entry == allEntries[k]
           entrySize == EntrySize(entry)
           close == ClosesBatch(currentBatch, currentSize, entrySize)
       IN  /\ batches' = IF close THEN Append(batches, currentBatch) ELSE batches
           /\ currentBatch' = Append(IF close THEN <<>> ELSE currentBatch, entry)
           /\ currentSize' = (IF close THEN 0 ELSE currentSize) + entrySize
    /\ k' = k + 1
    /\ UNCHANGED <<lookupVars, globalConfig, cliVars, scanVars, pc, allEntries, i, indexed, spinnerText, netVars, outVars>>

SpinnerText(done, total, batchNo, nBatches) ==
    [indexed |-> done, total |-> total, batch |-> batchNo, batches |-> nBatches]

\* codebase.ts:206-211: flush the running batch, reset the counter
BatchFlush ==
    /\ pc = "batch"
    /\ k > Len(allEntries)
    /\ batches' = IF Len(currentBatch) > 0 THEN Append(batches, currentBatch) ELSE batches
    /\ indexed' = 0
    /\ i' = 0
    /\ spinnerText' = SpinnerText(0, Len(allEntries), 0, Len(batches'))
    /\ pc' = "loop"
    /\ UNCHANGED <<lookupVars, globalConfig, cliVars, scanVars, allEntries, k, currentBatch, currentSize, netVars, outVars>>

----------------------------------------------------------------------------
(* The submit loop, codebase.ts:210-239 *)

Request(files, site) == [method |-> "POST", url |-> "codebase/index", files |-> files, site |-> site]
\* a request without body, made at the call site `site`
BareRequest(method, url, site) == [method |-> method, url |-> url, files |-> <<>>, site |-> site]

\* the payload of the api.post at the call site the control flow stands at
PostPayload(site) ==
    LET batch == batches[i + 1]
        mid == (Len(batch) + 1) \div 2            \* Math.ceil(batch.length / 2)
    IN  CASE site = "post" -> batch
          [] site = "half1" -> SubSeq(batch, 1, mid)           \* batch.slice(0, mid)
          [] site = "half2" -> SubSeq(batch, mid + 1, Len(batch))  \* batch.slice(mid)

PostSites == {"post", "half1", "half2"}
AwaitOf(site) == CASE site = "post" -> "await_post" [] site = "half1" -> "await_half1"
                   [] site = "half2" -> "await_half2"
\* where the control flow continues when the awaited post resolves
ResumeOf(await) == CASE await = "await_post" -> "progress" [] await = "await_half1" -> "half2"
                     [] await = "await_half2" -> "progress"
                     [] await = "await_get" -> "write" [] await = "await_del" -> "cleared"
                     [] await = "await_logout" -> "logged_out"
\* where it continues when the awaited post rejects: the first post is inside
\* the inner try (217), the posts of the halves are inside its catch block and
\* reach the outer catch (237)
\* mutant of RejectOf: a rejected post is swallowed, the loop goes on
RejectOfSwallowed(await) == ResumeOf(await)

RejectOf(await) == CASE await = "await_post" -> "catch"
                     [] await = "await_logout" -> "catch_logout"
                     [] OTHER -> "throw"

\* codebase.ts:213-214: loop head
LoopHead ==
    /\ pc = "loop"
    /\ pc' = IF i < Len(batches) THEN "post" ELSE "success"
    /\ UNCHANGED <<lookupVars, globalConfig, cliVars, scanVars, indexVars, netVars, outVars>>

\* mutant of ApiPost: the post is not awaited
ApiPostNotAwaited ==
    /\ pc \in PostSites
    /\ inflight' = Append(inflight, Request(PostPayload(pc), pc))
    /\ pc' = ResumeOf(AwaitOf(pc))
    /\ UNCHANGED <<lookupVars, globalConfig, cliVars, scanVars, indexVars, serverLog, err, outVars>>

\* `await api.post(...)` at 216, 224, 225: hand the request to axios and wait
ApiPost ==
    /\ pc \in PostSites
    /\ inflight' = Append(inflight, Request(PostPayload(pc), pc))
    /\ pc' = AwaitOf(pc)
    /\ UNCHANGED <<lookupVars, globalConfig, cliVars, scanVars, indexVars, serverLog, err, outVars>>

\* the request settles: the server (or the network) answers, the response
\* interceptor turns a failure into an ApiError, the awaiting code resumes
Settle ==
    /\ inflight # <<>>
    /\ \E o \in OutcomesFor(Head(inflight)) :
        /\ serverLog' = Append(serverLog, [request |-> Head(inflight), outcome |-> o])
        /\ inflight' = Tail(inflight)
        /\ globalConfig' = IF ~o.ok /\ InterceptorClearsAuth(o)
                           THEN ClearAuth(globalConfig) ELSE globalConfig
        /\ IF pc \in {"await_post", "await_half1", "await_half2", "await_get", "await_del",
                    "await_logout"}
           THEN IF o.ok
                THEN pc' = ResumeOf(pc) /\ err' = err
                ELSE pc' = RejectOf(pc) /\ err' = ResponseInterceptor(o)
           ELSE UNCHANGED <<pc, err>>
    /\ UNCHANGED <<lookupVars, cliVars, scanVars, indexVars, outVars>>

\* codebase.ts:219: (err as {response?: {status?: number}})?.response?.status
CaughtStatus(e) == IF e.response.present THEN e.response.status ELSE -1

\* mutant of SplitsOn: the status is not looked at
SplitsOnAnyError(e, batch) == Len(batch) > 1

\* mutant of SplitsOn: the status of the ApiError, and no test of the length
SplitsOnStatusOnly(e, batch) == e.status = 413

\* codebase.ts:220
SplitsOn(e, batch) == CaughtStatus(e) = 413 /\ Len(batch) > 1

\* codebase.ts:217-228: the catch block of the first post
CatchPost ==
    /\ pc = "catch"
    /\ pc' = IF SplitsOn(err, batches[i + 1]) THEN "half1" ELSE "throw"
    /\ UNCHANGED <<lookupVars, globalConfig, cliVars, scanVars, indexVars, netVars, outVars>>

\* mutant of Progress: the counter counts batches, not files
ProgressCountsBatches ==
    /\ pc = "progress"
    /\ indexed' = indexed + 1
    /\ spinnerText' = SpinnerText(indexed', Len(allEntries), i + 1, Len(batches))
    /\ i' = i + 1
    /\ pc' = "loop"
    /\ UNCHANGED <<lookupVars, globalConfig, cliVars, scanVars, allEntries, k, batches, currentBatch, currentSize, netVars, outVars>>

\* codebase.ts:231-232
Progress ==
    /\ pc = "progress"
    /\ indexed' = indexed + Len(batches[i + 1])
    /\ spinnerText' = SpinnerText(indexed', Len(allEntries), i + 1, Len(batches))
    /\ i' = i + 1
    /\ pc' = "loop"
    /\ UNCHANGED <<lookupVars, globalConfig, cliVars, scanVars, allEntries, k, batches, currentBatch, currentSize, netVars, outVars>>

\* codebase.ts:235-236, then the action returns and the process ends normally
Success ==
    /\ pc = "success"
    /\ stdout' = Append(stdout, [level |-> "success", files |-> Len(allEntries),
                                 batches |-> Len(batches)])
    /\ exitCode' = 0
    /\ pc' = "done"
    /\ UNCHANGED <<lookupVars, globalConfig, cliVars, scanVars, indexVars, netVars, stderr>>

\* mutant of ErrorLines: the field messages are not printed
ErrorLinesMessageOnly(e) == IF e.isError THEN <<"message">> ELSE <<"unexpected">>

\* lib/output.ts handleError, reached from the catch at codebase.ts:237-239:
\* error(err.message), then one console.error line per field message of an
\* error that has `errors`; 'An unexpected error occurred' for a non-Error
ErrorLines(e) ==
    IF e.isError
    THEN <<"message">> \o (IF e.hasErrors THEN [c \in 1..e.fieldErrors |-> "field"] ELSE <<>>)
    ELSE <<"unexpected">>

HandleError ==
    /\ pc = "throw"
    /\ stderr' = stderr \o ErrorLines(err)
    /\ exitCode' = 1
    /\ pc' = "exited"
    /\ UNCHANGED <<lookupVars, globalConfig, cliVars, scanVars, indexVars, netVars, stdout>>

----------------------------------------------------------------------------
(* context:update-claude-md, src/unnamed/part_007:146-236.  A text is a     *)
(* sequence of tokens: a marker comment, a newline, or a piece of text      *)
(* without marker and without whitespace at its ends.                       *)

marker == "<!-- memo8-context-start -->"
endMarker == "<!-- memo8-context-end -->"
mandatoryMarker == "<!-- memo8-mandatory-start -->"
mandatoryEndMarker == "<!-- memo8-mandatory-end -->"
referenceMarker == "<!-- memo8-reference-start -->"
NL == "\n"

\* String.prototype.indexOf on tokens: the first position (from 1), 0 for -1
IndexOf(text, token) ==
    IF \E q \in 1..Len(text) : text[q] = token
    THEN CHOOSE q \in 1..Len(text) : text[q] = token /\ \A x \in 1..(q - 1) : text[x] # token
    ELSE 0

\* String.prototype.trimEnd, trimStart, trim
RECURSIVE TrimEnd(_)
TrimEnd(text) ==
    IF text # <<>> /\ text[Len(text)] = NL THEN TrimEnd(SubSeq(text, 1, Len(text) - 1)) ELSE text
RECURSIVE TrimStart(_)
TrimStart(text) == IF text # <<>> /\ Head(text) = NL THEN TrimStart(Tail(text)) ELSE text
Trim(text) == TrimStart(TrimEnd(text))

\* readHelperFile('CLAUDE.md') (part_007:28-34): the trimmed template
\* ai-rules/CLAUDE.md (rules, the reference marker, the reference), or ''
HelperFiles ==
    { <<"rules", NL, NL, referenceMarker, NL, NL, "reference">>, <<>> }

\* data.data.context of the answer to GET ai-context
ContextBlocks == { <<>>, <<"context">> }

\* part_007:183-190
MandatorySection(helper) ==
    IF IndexOf(helper, referenceMarker) # 0
    THEN Trim(SubSeq(helper, 1, IndexOf(helper, referenceMarker) - 1))
    ELSE <<>>
ReferenceSection(helper) ==
    IF IndexOf(helper, referenceMarker) # 0
    THEN Trim(SubSeq(helper, IndexOf(helper, referenceMarker) + 1, Len(helper)))
    ELSE helper

\* part_007:192-193
WrappedContext(helper, contextBlock) ==
    LET liveData == IF contextBlock # <<>>
                    THEN <<NL, "## Live Project Data", NL, NL>> \o contextBlock ELSE <<>>
    IN  <<marker, NL>> \o ReferenceSection(helper) \o liveData \o <<NL, endMarker>>

\* part_007:194-196
MandatoryBlock(helper) ==
    IF MandatorySection(helper) # <<>>
    THEN <<mandatoryMarker, NL>> \o MandatorySection(helper) \o <<NL, mandatoryEndMarker>>
    ELSE <<>>

\* part_007:199-225: the new text of an existing file
UpdatedText(text, mandatoryBlock, wrappedContext) ==
    LET mStartIdx == IndexOf(text, mandatoryMarker)
        mEndIdx == IndexOf(text, mandatoryEndMarker)
        existing ==
            IF mStartIdx # 0 /\ mEndIdx # 0
            THEN SubSeq(text, 1, mStartIdx - 1) \o mandatoryBlock
                 \o SubSeq(text, mEndIdx + 1, Len(text))
            ELSE text
        startIdx == IndexOf(existing, marker)
        endIdx == IndexOf(existing, endMarker)
    IN  IF startIdx # 0 /\ endIdx # 0
        THEN SubSeq(existing, 1, startIdx - 1) \o wrappedContext
             \o SubSeq(existing, endIdx + 1, Len(existing))
        ELSE IF mStartIdx # 0
        THEN TrimEnd(existing) \o <<NL, NL>> \o wrappedContext \o <<NL>>
        ELSE TrimEnd(existing) \o <<NL, NL>> \o mandatoryBlock \o <<NL, NL>>
             \o wrappedContext \o <<NL>>

\* part_007:229-233: the text of a new file
CreatedText(mandatoryBlock, wrappedContext) ==
    <<"# Project Context", NL, NL>>
    \o (IF mandatoryBlock # <<>> THEN mandatoryBlock \o <<NL, NL>> ELSE <<>>)
    \o wrappedContext \o <<NL>>

Line_Success == [level |-> "success", files |-> 0, batches |-> 0]
Line_Info == [level |-> "info", files |-> 0, batches |-> 0]

\* part_007:150-155
UpdateStart ==
    /\ pc = "start"
    /\ command = "context:update-claude-md"
    /\ IF projectId = 0
       THEN /\ stdout' = Append(stdout, Line_Warn)
            /\ exitCode' = 0
            /\ pc' = "done"
       ELSE /\ pc' = "get"
            /\ UNCHANGED <<stdout, exitCode>>
    /\ UNCHANGED <<lookupVars, globalConfig, cliVars, scanVars, indexVars, netVars, stderr>>

\* part_007:160-162: await api.get(`/projects/${projectId}/ai-context`)
ApiGet ==
    /\ pc = "get"
    /\ inflight' = Append(inflight, BareRequest("GET", "ai-context", "get"))
    /\ pc' = "await_get"
    /\ UNCHANGED <<lookupVars, globalConfig, cliVars, scanVars, indexVars, serverLog, err, outVars>>

\* part_007:165-236: the file is rewritten or created, two lines are printed
WriteClaudeMd ==
    /\ pc = "write"
    /\ \E helper \in HelperFiles, contextBlock \in ContextBlocks :
          LET wrappedContext == WrappedContext(helper, contextBlock)
              mandatoryBlock == MandatoryBlock(helper)
          IN  claudeMd' = [exists |-> TRUE,
                           text |-> IF claudeMd.exists
                                    THEN UpdatedText(claudeMd.text, mandatoryBlock, wrappedContext)
                                    ELSE CreatedText(mandatoryBlock, wrappedContext)]
    /\ stdout' = stdout \o <<Line_Success, Line_Info>>
    /\ exitCode' = 0
    /\ pc' = "done"
    /\ UNCHANGED <<lookupVars, globalConfig, command, force, answer, mdBefore, run, firstScan,
                   scanVars, indexVars, netVars, stderr>>

----------------------------------------------------------------------------
(* codebase clear, codebase.ts:373-408 *)

\* codebase.ts:378-385
ClearStart ==
    /\ pc = "start"
    /\ command = "codebase clear"
    /\ IF projectId = 0
       THEN /\ stdout' = Append(stdout, Line_Warn)
            /\ exitCode' = 0
            /\ pc' = "done"
       ELSE /\ pc' = IF force THEN "del" ELSE "prompt"
            /\ UNCHANGED <<stdout, exitCode>>
    /\ UNCHANGED <<lookupVars, globalConfig, cliVars, scanVars, indexVars, netVars, stderr>>

\* mutant of AfterPrompt: the answer is not looked at
AfterPromptProceeds(confirm) == "del"

\* codebase.ts:394: if (!confirm) return
AfterPrompt(confirm) == IF confirm THEN "del" ELSE "done"

\* codebase.ts:385-395: the confirm prompt is answered
Prompt ==
    /\ pc = "prompt"
    /\ \E confirm \in BOOLEAN :
          /\ answer' = IF confirm THEN "yes" ELSE "no"
          /\ pc' = AfterPrompt(confirm)
    /\ exitCode' = IF pc' = "done" THEN 0 ELSE exitCode
    /\ UNCHANGED <<lookupVars, globalConfig, command, force, claudeMd, mdBefore, run, firstScan,
                   scanVars, indexVars, netVars, stdout, stderr>>

\* codebase.ts:400: await api.del(`/projects/${projectId}/codebase`)
ApiDel ==
    /\ pc = "del"
    /\ inflight' = Append(inflight, BareRequest("DELETE", "codebase", "del"))
    /\ pc' = "await_del"
    /\ UNCHANGED <<lookupVars, globalConfig, cliVars, scanVars, indexVars, serverLog, err, outVars>>

\* codebase.ts:401-403
ClearSuccess ==
    /\ pc = "cleared"
    /\ stdout' = Append(stdout, Line_Success)
    /\ exitCode' = 0
    /\ pc' = "done"
    /\ UNCHANGED <<lookupVars, globalConfig, cliVars, scanVars, indexVars, netVars, stderr>>

----------------------------------------------------------------------------
(* logout, src/unnamed/part_009:641-662 *)

\* part_009:648: await api.post('/logout')
LogoutStart ==
    /\ pc = "start"
    /\ command = "logout"
    /\ inflight' = Append(inflight, BareRequest("POST", "logout", "logout"))
    /\ pc' = "await_logout"
    /\ UNCHANGED <<lookupVars, globalConfig, cliVars, scanVars, indexVars, serverLog, err, outVars>>

\* part_009:649-651: clearAuth(), then the success line
LogoutSuccess ==
    /\ pc = "logged_out"
    /\ globalConfig' = ClearAuth(globalConfig)
    /\ stdout' = Append(stdout, Line_Success)
    /\ exitCode' = 0
    /\ pc' = "done"
    /\ UNCHANGED <<lookupVars, cliVars, scanVars, indexVars, netVars, stderr>>

\* mutant of CatchClearAuth: the catch block leaves the config alone
CatchKeepsAuth(config) == config

\* part_009:653-654: "Clear local auth even if API call fails"
CatchClearAuth(config) == ClearAuth(config)

\* part_009:652-660: the catch block
LogoutCatch ==
    /\ pc = "catch_logout"
    /\ globalConfig' = CatchClearAuth(globalConfig)
    /\ IF err.isError /\ IncludesSessionExpired(err.message)
       THEN /\ stdout' = Append(stdout, Line_Success)
            /\ exitCode' = 0
            /\ pc' = "done"
       ELSE /\ pc' = "throw"
            /\ UNCHANGED <<stdout, exitCode>>
    /\ UNCHANGED <<lookupVars, cliVars, scanVars, indexVars, netVars, stderr>>

----------------------------------------------------------------------------
(* The index run from a given sequence of FileEntry *)

EntryNames == <<"a", "b", "c", "d", "e">>

\* the fixed part of an entry's estimated size for a one-letter .txt file
EntryFixed == PathLen(<<<<"a", "txt">>>>) + SHA256_HEX_LENGTH + ENTRY_OVERHEAD

\* content lengths around the ceiling: tiny, half a batch, one byte more than
\* half, exactly a whole batch, one byte more than a whole batch
ContentLengths ==
    {1, MAX_BATCH_BYTES \div 2 - EntryFixed, MAX_BATCH_BYTES \div 2 - EntryFixed + 1,
     MAX_BATCH_BYTES - EntryFixed, MAX_BATCH_BYTES - EntryFixed + 1}

EntriesOfLengths(lens) ==
    [c \in 1..Len(lens) |-> FileEntry(<<<<EntryNames[c], "txt">>>>, <<[b |-> "txt", n |-> lens[c]]>>)]

InitEntries ==
    /\ pc = "read"
    /\ \E n \in 0..MaxEntries : \E lens \in [1..n -> ContentLengths] :
         allEntries = EntriesOfLengths(lens)
    /\ k = 1
    /\ batches = <<>>
    /\ currentBatch = <<>>
    /\ currentSize = 0
    /\ i = 0
    /\ indexed = 0
    /\ spinnerText = SpinnerText(0, 0, 0, 0)
    /\ fs = <<>>
    /\ projectId = 1
    /\ ig = <<>>
    /\ stack = <<>>
    /\ filePaths = [c \in 1..Len(allEntries) |-> allEntries[c].file_path]
    /\ readPos = Len(allEntries) + 1
    /\ listed = {}
    /\ inflight = <<>>
    /\ serverLog = <<>>
    /\ err = NoError
    /\ stdout = <<>>
    /\ stderr = <<>>
    /\ exitCode = -1
    /\ command = "index"
    /\ force = FALSE
    /\ answer = "none"
    /\ claudeMd = NoFile
    /\ mdBefore = NoFile
    /\ run = 1
    /\ firstScan = NoScan
    /\ globalConfig = LoggedInConfig
    /\ NoLookup

NextIndex ==
    \/ CheckIndexable
    \/ BatchEntry
    \/ BatchFlush
    \/ LoopHead
    \/ ApiPost
    \/ Settle
    \/ CatchPost
    \/ Progress
    \/ Success
    \/ HandleError

SpecIndex == InitEntries /\ [][NextIndex]_vars

----------------------------------------------------------------------------
(* The whole index run over a directory tree *)

Init ==
    /\ pc = "start"
    /\ \E p \in TreeParams : fs = Tree(p)
    /\ projectId \in {0, 1}
    /\ projectId = 0 => fs = ScenarioTree
    /\ ig = <<>>
    /\ stack = <<>>
    /\ filePaths = <<>>
    /\ readPos = 1
    /\ listed = {}
    /\ allEntries = <<>>
    /\ k = 1
    /\ batches = <<>>
    /\ currentBatch = <<>>
    /\ currentSize = 0
    /\ i = 0
    /\ indexed = 0
    /\ spinnerText = SpinnerText(0, 0, 0, 0)
    /\ inflight = <<>>
    /\ serverLog = <<>>
    /\ err = NoError
    /\ stdout = <<>>
    /\ stderr = <<>>
    /\ exitCode = -1
    /\ command = "index"
    /\ force = FALSE
    /\ answer = "none"
    /\ claudeMd = NoFile
    /\ mdBefore = NoFile
    /\ run = 1
    /\ firstScan = NoScan
    /\ globalConfig = LoggedInConfig
    /\ NoLookup

Next ==
    \/ GetProject
    \/ LoadGitignore
    \/ WalkStart
    \/ WalkEntry
    \/ WalkReturn
    \/ AfterWalk
    \/ ReadFile
    \/ NextIndex

Spec == Init /\ [][Next]_vars

----------------------------------------------------------------------------
(* The directory walk alone, every step of it taken in the end *)

NextWalk ==
    \/ GetProject
    \/ LoadGitignore
    \/ WalkStart
    \/ WalkEntry
    \/ WalkReturn

\* the walk is synchronous code of one process: a step that can be taken is taken
SpecWalk == Init /\ [][NextWalk]_vars /\ WF_vars(NextWalk)

----------------------------------------------------------------------------
(* One run of `codebase clear` or of `context:update-claude-md` *)

UserTokens == {"notes", "todo"}
MdTokens == UserTokens \cup {marker, endMarker, mandatoryMarker, mandatoryEndMarker, NL}

Occurrences(text, token) == Cardinality({q \in 1..Len(text) : text[q] = token})

\* the texts of up to MaxMdTokens tokens in which a piece of the user's text
\* occurs once at most
MdTexts ==
    {t \in UNION {[1..n -> MdTokens] : n \in 0..MaxMdTokens} :
        \A u \in UserTokens : Occurrences(t, u) <= 1}

InitCommands ==
    /\ pc = "start"
    /\ command \in {"codebase clear", "context:update-claude-md", "logout"}
    /\ projectId \in {0, 1}
    /\ force \in BOOLEAN
    /\ command # "codebase clear" => ~force
    /\ command = "logout" => projectId = 0
    /\ answer = "none"
    /\ claudeMd \in {NoFile} \cup {[exists |-> TRUE, text |-> t] : t \in MdTexts}
    /\ command = "codebase clear" \/ projectId = 0 => claudeMd = NoFile
    /\ mdBefore = claudeMd
    /\ run = 1
    /\ firstScan = NoScan
    /\ globalConfig \in GlobalConfigs
    /\ NoLookup
    /\ command # "logout" => globalConfig = LoggedInConfig
    /\ fs = <<>>
    /\ ig = <<>>
    /\ stack = <<>>
    /\ filePaths = <<>>
    /\ readPos = 1
    /\ listed = {}
    /\ allEntries = <<>>
    /\ k = 1
    /\ batches = <<>>
    /\ currentBatch = <<>>
    /\ currentSize = 0
    /\ i = 0
    /\ indexed = 0
    /\ spinnerText = SpinnerText(0, 0, 0, 0)
    /\ inflight = <<>>
    /\ serverLog = <<>>
    /\ err = NoError
    /\ stdout = <<>>
    /\ stderr = <<>>
    /\ exitCode = -1

NextCommands ==
    \/ UpdateStart
    \/ ApiGet
    \/ WriteClaudeMd
    \/ ClearStart
    \/ Prompt
    \/ ApiDel
    \/ ClearSuccess
    \/ LogoutStart
    \/ LogoutSuccess
    \/ LogoutCatch
    \/ Settle
    \/ HandleError

SpecCommands == InitCommands /\ [][NextCommands]_vars

----------------------------------------------------------------------------
(* The index command run a second time over the unchanged tree *)

\* `memo8 codebase index` is started again once the first process has ended:
\* a new process, nothing in memory; the tree, the ignore files and the
\* project configuration on disk are as they were
Rescan ==
    /\ command = "index"
    /\ pc \in {"done", "exited"}
    /\ run = 1
    /\ run' = 2
    /\ firstScan' = [filePaths |-> filePaths, allEntries |-> allEntries, batches |-> batches]
    /\ pc' = "start"
    /\ ig' = <<>>
    /\ stack' = <<>>
    /\ filePaths' = <<>>
    /\ readPos' = 1
    /\ listed' = {}
    /\ allEntries' = <<>>
    /\ k' = 1
    /\ batches' = <<>>
    /\ currentBatch' = <<>>
    /\ currentSize' = 0
    /\ i' = 0
    /\ indexed' = 0
    /\ spinnerText' = SpinnerText(0, 0, 0, 0)
    /\ inflight' = <<>>
    /\ serverLog' = <<>>
    /\ err' = NoError
    /\ stdout' = <<>>
    /\ stderr' = <<>>
    /\ exitCode' = -1
    /\ UNCHANGED <<fs, projectId, lookupVars, globalConfig, command, force, answer, claudeMd, mdBefore>>

NextRescan ==
    \/ Next
    \/ Rescan

SpecRescan == Init /\ [][NextRescan]_vars

----------------------------------------------------------------------------
(* Properties of batch construction *)

\* the batches are final once the control flow has left the construction loop
Batched == pc \notin {"start", "load", "walk", "walking", "walked", "read", "batch"}
Ended == pc \in {"done", "exited"}
\* the read loop is over: allEntries is the input of batch construction
Admitted ==
    /\ pc \notin {"start", "load", "walk", "walking", "walked"}
    /\ err # FsError
    /\ pc = "read" => readPos > Len(filePaths)

OverCeiling(entry) == EntrySize(entry) > MAX_BATCH_BYTES

\* the number of entries in the batches before batch j
EntriesBefore(j) == SumSeq([c \in 1..(j - 1) |-> Len(batches[c])])

\* C1: every batch, except a batch of one single entry whose own estimated
\* size exceeds the ceiling, has a sum of entry sizes of at most MAX_BATCH_BYTES.
C1_BatchSizeBound ==
    Batched =>
        \A j \in 1..Len(batches) :
            \/ Len(batches[j]) = 1 /\ OverCeiling(batches[j][1])
            \/ BatchSize(batches[j]) <= MAX_BATCH_BYTES

\* a batch filled to exactly the ceiling by two entries, followed by another batch
C1_Witness ==
    /\ Batched
    /\ Len(batches) >= 2
    /\ Len(batches[1]) = 2
    /\ BatchSize(batches[1]) = MAX_BATCH_BYTES

\* C2: an entry whose own size exceeds the ceiling is never dropped and is the
\* only entry of its batch, whatever precedes or follows it in the input.
C2_OversizedAlone ==
    Batched =>
        \A p \in 1..Len(allEntries) :
            OverCeiling(allEntries[p]) =>
                \E j \in 1..Len(batches) :
                    /\ EntriesBefore(j) = p - 1
                    /\ batches[j] = <<allEntries[p]>>

\* an over-ceiling entry between two entries that would fit together in one batch
C2_Witness ==
    /\ Batched
    /\ Len(allEntries) >= 3
    /\ ~OverCeiling(allEntries[1])
    /\ OverCeiling(allEntries[2])
    /\ EntrySize(allEntries[1]) + EntrySize(allEntries[3]) <= MAX_BATCH_BYTES

\* C3: the batches, concatenated in order, are exactly the input sequence, every
\* batch is non-empty, and an empty input produces no batch.
C3_OrderedPartition ==
    /\ Batched /\ Len(allEntries) > 0 =>
          /\ Flatten(batches) = allEntries
          /\ \A j \in 1..Len(batches) : Len(batches[j]) >= 1
    /\ Admitted /\ Len(allEntries) = 0 => batches = <<>> /\ pc \in {"read", "done"}

\* several entries in several batches, one of them with more than one entry
C3_Witness ==
    /\ Batched
    /\ Len(allEntries) >= 3
    /\ Len(batches) >= 2
    /\ \E j \in 1..Len(batches) : Len(batches[j]) >= 2

----------------------------------------------------------------------------
(* Properties of the submit loop *)

Status(o) == IF o.response.present THEN o.response.status ELSE 0

\* the server answered every request of the run like one that rejects with 413
\* exactly the requests of more than N entries and accepts the others
ServerRejectsMoreThan(N) ==
    \A n \in 1..Len(serverLog) :
        LET r == serverLog[n]
        IN  IF Len(r.request.files) > N THEN Status(r.outcome) = 413 ELSE r.outcome.ok

\* C4: against a server that rejects with 413 any request of more than N
\* entries, a run that submitted a batch of 2N entries has resubmitted it as
\* exactly two accepted requests of N entries each, which together carry every
\* entry of the batch.
C4_SplitOn413 ==
    \A N \in 1..MaxEntries :
        (/\ Ended
         /\ ServerRejectsMoreThan(N)
         /\ \E n \in 1..Len(serverLog) :
                /\ serverLog[n].request.site = "post"
                /\ Len(serverLog[n].request.files) = 2 * N)
        =>
        \E n \in 1..Len(serverLog) :
            /\ serverLog[n].request.site = "post"
            /\ Len(serverLog[n].request.files) = 2 * N
            /\ n + 2 <= Len(serverLog)
            /\ serverLog[n + 1].request.files \o serverLog[n + 2].request.files
                 = serverLog[n].request.files
            /\ Len(serverLog[n + 1].request.files) = N
            /\ serverLog[n + 1].outcome.ok
            /\ serverLog[n + 2].outcome.ok

\* a submission that failed with anything other than a 413 on a multi-entry batch
FatalFailure(r) ==
    /\ ~r.outcome.ok
    /\ ~(Status(r.outcome) = 413 /\ Len(r.request.files) > 1)

\* C5: after such a failure no request is submitted any more (the failed one is
\* the last one on the wire, nothing is in flight, no request other than a POST
\* to the index endpoint was ever made), and the run ends in the error exit,
\* not in the success message.
C5_FatalFailureAborts ==
    \A n \in 1..Len(serverLog) :
        FatalFailure(serverLog[n]) =>
            /\ n = Len(serverLog)
            /\ inflight = <<>>
            /\ pc \in {"catch", "throw", "exited"}
            /\ \A m \in 1..Len(serverLog) : serverLog[m].request.method = "POST"
            /\ \A m \in 1..Len(stdout) : stdout[m].level # "success"
            /\ exitCode \in {-1, 1}
            /\ Ended => exitCode = 1 /\ Len(stderr) >= 1

\* the second batch failed with a server error after the first was accepted,
\* and the run has ended
C5_Witness ==
    /\ pc = "exited"
    /\ Len(batches) >= 3
    /\ Len(serverLog) = 2
    /\ serverLog[1].outcome.ok
    /\ Status(serverLog[2].outcome) = 500
    /\ Len(serverLog[2].request.files) > 1

\* the requests made so far, settled or in flight, in the order they were made
Submitted == [n \in 1..Len(serverLog) |-> serverLog[n].request] \o inflight
IsFirstPost(r) == r.site = "post"

\* C6: at most one request is in flight at any time, a request is in flight
\* only while the run awaits it, and the batches are submitted in construction
\* order: the j-th first submission of a batch carries batch j.
C6_Sequential ==
    /\ Len(inflight) <= 1
    /\ inflight # <<>> => pc \in {"await_post", "await_half1", "await_half2"}
    /\ LET posts == SelectSeq(Submitted, IsFirstPost)
       IN  /\ Len(posts) <= Len(batches)
           /\ \A j \in 1..Len(posts) : posts[j].files = batches[j]
           /\ Len(posts) \in {i, i + 1}

\* the second batch is in flight after the first was accepted
C6_Witness ==
    /\ Len(inflight) = 1
    /\ Len(serverLog) = 1
    /\ serverLog[1].outcome.ok
    /\ inflight[1].files = batches[2]
    /\ batches[1] # batches[2]

----------------------------------------------------------------------------
(* Properties of the directory walk and the admission filter *)

Range(seq) == {seq[c] : c \in 1..Len(seq)}

\* the non-root directories above `path`, and `path` itself
PrefixesOf(path) == {SubSeq(path, 1, n) : n \in 1..Len(path)}
AncestorsOf(path) == PrefixesOf(path) \ {path}

\* the walk has returned its result to the index action
WalkReturned == pc \notin {"start", "load", "walk", "walking"} /\ projectId # 0 /\ err # FsError

\* the file is in a directory the walk can reach and read, the rules do not
\* skip it, and it is within the size threshold
Walkable(f) ==
    /\ fs[f].kind = "file"
    /\ StatSize(f) <= MAX_FILE_SIZE
    /\ ~Ignores(ig, f, FALSE)
    /\ \A a \in AncestorsOf(f) :
          fs[a].readable /\ ~Ignores(ig, a, FALSE) /\ ~Ignores(ig, a, TRUE)

\* C7: a non-ignored directory that cannot be read is skipped silently: the
\* scan is not aborted by it, and the run has the files of every other
\* readable directory as its walk result.
C7_UnreadableDirSkipped ==
    /\ ~(pc \in {"throw", "exited"} /\ err = FsError)
    /\ Ended /\ projectId # 0 =>
          \A f \in DOMAIN fs : Walkable(f) => f \in Range(filePaths)

\* C8: a directory the ignore predicate matches, as a bare relative path or
\* with a trailing slash, is never listed, nor is anything below it; no file
\* below it is in the result.
C8_IgnoredDirNeverListed ==
    /\ \A d \in listed : \A a \in PrefixesOf(d) :
          ~TestOne(ig, a, FALSE) /\ ~TestOne(ig, a, TRUE)
    /\ \A f \in Range(filePaths) : \A a \in AncestorsOf(f) :
          ~TestOne(ig, a, FALSE) /\ ~TestOne(ig, a, TRUE)

\* the walk has returned although node_modules holds an unreadable directory
\* and foo is a directory matched only by the pattern "foo/"
C8_Witness ==
    /\ pc = "walked"
    /\ <<NODE_MODULES, PRIV>> \in DOMAIN fs
    /\ ~fs[<<NODE_MODULES, PRIV>>].readable
    /\ <<FOO, C_TXT>> \in DOMAIN fs
    /\ TestOne(ig, <<FOO>>, TRUE)
    /\ ~TestOne(ig, <<FOO>>, FALSE)
    /\ listed \cap {<<NODE_MODULES>>, <<NODE_MODULES, PRIV>>, <<FOO>>} = {}
    /\ <<SUB>> \in listed

\* a default pattern matches the file's name
DefaultExcludes(f) ==
    \E c \in 1..Len(DEFAULT_IGNORE) : GlobMatches(DEFAULT_IGNORE[c].glob, f[Len(f)])

\* the last line of .memo8ignore that matches the file's name has a leading "!"
Memo8ReIncludes(f) ==
    LET lines == LinesOf(MEMO8IGNORE)
        hits == {c \in 1..Len(lines) : ~lines[c].slash /\ GlobMatches(lines[c].glob, f[Len(f)])}
    IN  \E c \in hits : lines[c].bang /\ \A x \in hits : x <= c

\* C9: the rules are the defaults, then the lines of .gitignore, then the
\* lines of .memo8ignore; a file a default pattern excludes and a "!" line of
\* .memo8ignore re-includes is in the walk result (if the walk reaches its
\* directory and the file is within the size threshold).
C9_IgnoreCascade ==
    /\ pc \notin {"start", "load"} /\ projectId # 0 =>
          /\ Len(ig) = Len(DEFAULT_IGNORE) + Len(LinesOf(GITIGNORE)) + Len(LinesOf(MEMO8IGNORE))
          /\ \A c \in 1..Len(DEFAULT_IGNORE) : ig[c].glob = DEFAULT_IGNORE[c].glob
          /\ \A c \in 1..Len(LinesOf(GITIGNORE)) :
                ig[Len(DEFAULT_IGNORE) + c].glob = LinesOf(GITIGNORE)[c].glob
          /\ \A c \in 1..Len(LinesOf(MEMO8IGNORE)) :
                ig[Len(ig) - Len(LinesOf(MEMO8IGNORE)) + c].glob = LinesOf(MEMO8IGNORE)[c].glob
    /\ WalkReturned =>
          \A f \in DOMAIN fs :
              (/\ fs[f].kind = "file"
               /\ StatSize(f) <= MAX_FILE_SIZE
               /\ AncestorsOf(f) \subseteq listed
               /\ DefaultExcludes(f)
               /\ Memo8ReIncludes(f))
              => f \in Range(filePaths)

\* x.map, excluded by the default *.map, is in the walk result
C9_Witness ==
    /\ pc = "walked"
    /\ <<X_MAP>> \in DOMAIN fs
    /\ DefaultExcludes(<<X_MAP>>)
    /\ Memo8ReIncludes(<<X_MAP>>)
    /\ <<X_MAP>> \in Range(filePaths)

\* the read loop has gone through every walked file
ReadDone ==
    /\ WalkReturned
    /\ pc \notin {"walked", "done"} \/ (pc = "done" /\ Len(filePaths) > 0)
    /\ readPos > Len(filePaths)

\* a null byte at an offset below `limit`
NulBelow(buf, limit) ==
    \E c \in 1..Len(buf) :
        buf[c].b = "nul" /\ buf[c].n > 0 /\ SumSeq([x \in 1..(c - 1) |-> buf[x].n]) < limit

\* nothing but whitespace
OnlyWhitespace(buf) == \A c \in 1..Len(buf) : buf[c].b = "ws" \/ buf[c].n = 0

EntriesOf(f) == {c \in 1..Len(allEntries) : allEntries[c].file_path = f}

\* C10: a walked file has no FileEntry if a null byte occurs within its first
\* 8192 bytes or if its content is empty after trimming whitespace; every other
\* readable walked file has exactly one, also when it holds null bytes beyond
\* the first 8192 bytes.
C10_AdmissionFilter ==
    ReadDone =>
        \A f \in Range(filePaths) :
            IF NulBelow(fs[f].content, 8192) \/ OnlyWhitespace(fs[f].content)
            THEN EntriesOf(f) = {}
            ELSE fs[f].readable => Cardinality(EntriesOf(f)) = 1

\* a.txt with its only null byte at offset 8192 is admitted; b.bin and
\* empty.txt are not
C10_Witness ==
    /\ ReadDone
    /\ fs[<<A_TXT>>].content = <<[b |-> "txt", n |-> 8192], [b |-> "nul", n |-> 1]>>
    /\ Cardinality(EntriesOf(<<A_TXT>>)) = 1
    /\ {<<B_BIN>>, <<EMPTY_TXT>>} \subseteq Range(filePaths)
    /\ EntriesOf(<<B_BIN>>) = {}
    /\ EntriesOf(<<EMPTY_TXT>>) = {}

CanBeRead(f) == fs[f].readable

\* the entries the read loop makes of a sequence of files that can all be read
RECURSIVE EntriesFrom(_)
EntriesFrom(paths) ==
    IF paths = <<>> THEN <<>>
    ELSE LET f == Head(paths)
             buf == fs[f].content
         IN  (IF NulBelow(buf, BINARY_PROBE_BYTES) \/ OnlyWhitespace(buf)
              THEN <<>> ELSE <<FileEntry(f, Utf8Decode(buf))>>)
             \o EntriesFrom(Tail(paths))

\* C11: a walked file whose read fails is left out and nothing is reported
\* (no error, no output line, no exit); the entries are those the loop makes
\* of the walked files without the failing ones, in the same order.
C11_ReadFailureSkipsFileOnly ==
    /\ pc = "read" => err = NoError /\ stderr = <<>> /\ exitCode = -1 /\ Len(stdout) = 1
    /\ ReadDone => allEntries = EntriesFrom(SelectSeq(filePaths, CanBeRead))
    /\ pc = "read" /\ readPos <= Len(filePaths) =>
          allEntries = EntriesFrom(SelectSeq(SubSeq(filePaths, 1, readPos - 1), CanBeRead))

\* sub/b.txt was walked and cannot be read; x.map, read after it, has its entry
C11_Witness ==
    /\ ReadDone
    /\ <<SUB, B_TXT>> \in Range(filePaths)
    /\ ~CanBeRead(<<SUB, B_TXT>>)
    /\ EntriesOf(<<SUB, B_TXT>>) = {}
    /\ Cardinality(EntriesOf(<<X_MAP>>)) = 1
    /\ allEntries[Len(allEntries)].file_path = <<X_MAP>>
    /\ Len(allEntries) >= 3

----------------------------------------------------------------------------
(* Properties of a second run *)

----------------------------------------------------------------------------
(* The end-to-end scenario *)

Scenario == fs = ScenarioTree /\ projectId # 0 /\ command = "index"

\* the count of the line `Found N files to index.`
Discovered == stdout[1].files
\* the walked files that got no FileEntry
Skipped == Len(filePaths) - Len(allEntries)

----------------------------------------------------------------------------
(* Properties of the error handler *)

\* C14 as stated: a command that ended through the error handler has exited
\* with a non-zero code and emitted exactly one error line, whatever the error.
C14_ExactlyOneErrorLine ==
    pc = "exited" => exitCode # 0 /\ Len(stderr) = 1

\* C14, amended: a command that ended through the error handler has exited
\* with code 1; the first line emitted is the error's message (or the fixed
\* text for a value that is not an Error); it is the only line unless the
\* error carries field errors, and then one line per field message follows it.
\* Nothing but the handler writes an error line.
C14_ErrorExit ==
    /\ pc = "exited" =>
          /\ exitCode = 1
          /\ Len(stderr) = 1 + (IF err.hasErrors THEN err.fieldErrors ELSE 0)
          /\ stderr[1] = (IF err.isError THEN "message" ELSE "unexpected")
          /\ \A n \in 2..Len(stderr) : stderr[n] = "field"
    /\ pc # "exited" => stderr = <<>> /\ exitCode # 1

\* a run ended by a 422 whose body names one field error: two lines
C14_Witness ==
    /\ pc = "exited"
    /\ err = ValidationError(ValidationFailed, 1)
    /\ stderr = <<"message", "field">>
    /\ exitCode = 1

----------------------------------------------------------------------------
(* Properties of context:update-claude-md *)

\* position q of the text lies in a section delimited by `open` and `close`:
\* after an `open` with no `close` between, and before a `close`
InSection(text, q, open, close) ==
    /\ \E s \in 1..(q - 1) : text[s] = open /\ \A x \in (s + 1)..(q - 1) : text[x] # close
    /\ \E e \in (q + 1)..Len(text) : text[e] = close

\* the positions of the user's text outside the memo8 sections
OutsidePositions(text) ==
    {q \in 1..Len(text) :
        /\ text[q] \in UserTokens
        /\ ~InSection(text, q, marker, endMarker)
        /\ ~InSection(text, q, mandatoryMarker, mandatoryEndMarker)}

\* the command has rewritten an existing file
Rewritten ==
    /\ command = "context:update-claude-md"
    /\ pc = "done"
    /\ mdBefore.exists
    /\ Len(stdout) = 2

\* C15: the rewritten file holds every piece of the user's text that was
\* outside the memo8 sections, once and in the same order, whatever markers
\* the file had: none, one of a pair, or an end marker before its start marker.
C15_PreservesUserText ==
    Rewritten =>
        LET old == mdBefore.text
            new == claudeMd.text
        IN  /\ \A q \in OutsidePositions(old) : Occurrences(new, old[q]) = 1
            /\ \A q1, q2 \in OutsidePositions(old) :
                  q1 < q2 => IndexOf(new, old[q1]) < IndexOf(new, old[q2])

----------------------------------------------------------------------------
(* Properties of codebase clear *)

IsDelete(r) == r.method = "DELETE"

\* C16: a DELETE of the index is made only with --force or after the prompt
\* was answered yes; after the answer no, no request is made at all and the
\* command ends without an error.
C16_ClearNeedsConfirmation ==
    /\ SelectSeq(Submitted, IsDelete) # <<>> => force \/ answer = "yes"
    /\ Len(SelectSeq(Submitted, IsDelete)) <= 1
    /\ answer = "no" =>
          /\ Submitted = <<>>
          /\ pc = "done"
          /\ exitCode = 0
          /\ stdout = <<>> /\ stderr = <<>>
    /\ answer # "none" => ~force /\ command = "codebase clear"

\* the prompt was answered yes and the server has accepted the DELETE
C16_Witness ==
    /\ answer = "yes"
    /\ pc = "done"
    /\ Len(serverLog) = 1
    /\ IsDelete(serverLog[1].request)
    /\ serverLog[1].outcome.ok

----------------------------------------------------------------------------
(* More properties of the submit loop *)

Accepted(r) == r.outcome.ok
\* the entries of the requests the server accepted, in the order of the requests
Delivered ==
    LET accepted == SelectSeq(serverLog, Accepted)
    IN  Flatten([n \in 1..Len(accepted) |-> accepted[n].request.files])

\* the run has printed `Indexed N files in M batches.`
Succeeded ==
    /\ command = "index"
    /\ stdout # <<>>
    /\ stdout[Len(stdout)].level = "success"

\* C17: after the success message every admitted FileEntry is in exactly one
\* accepted request (the accepted requests, in order, carry the admitted
\* sequence), N is the number of admitted entries and M the number of batches.
C17_SuccessImpliesDelivery ==
    Succeeded =>
        /\ Delivered = allEntries
        /\ \A p \in 1..Len(allEntries) :
              Cardinality({n \in 1..Len(serverLog) :
                  /\ serverLog[n].outcome.ok
                  /\ \E c \in 1..Len(serverLog[n].request.files) :
                        serverLog[n].request.files[c] = allEntries[p]}) = 1
        /\ stdout[Len(stdout)].files = Len(allEntries)
        /\ stdout[Len(stdout)].batches = Len(batches)
        /\ inflight = <<>>
        /\ exitCode = 0

\* a run of three or more entries in two or more batches has succeeded
C17_Witness ==
    /\ Succeeded
    /\ Len(allEntries) >= 3
    /\ Len(batches) >= 2
    /\ Len(serverLog) = Len(batches)

\* a first submission of a batch of more than one entry that got a 413
Rejected413(n) ==
    /\ serverLog[n].request.site = "post"
    /\ Status(serverLog[n].outcome) = 413
    /\ Len(serverLog[n].request.files) > 1

\* C18: once the run has ended, a 413 on a multi-entry batch was followed by
\* the submission of its first half; if that failed it is the last request of
\* the run; if not, the second half followed at once, and if that failed it
\* is the last request and the run ended in the error exit; no half was
\* submitted a second time or halved again.
C18_OneLevelSplit ==
    Ended =>
        \A n \in 1..Len(serverLog) :
            Rejected413(n) =>
                /\ n + 1 <= Len(serverLog)
                /\ serverLog[n + 1].request.site = "half1"
                /\ ~serverLog[n + 1].outcome.ok => Len(serverLog) = n + 1 /\ exitCode = 1
                /\ serverLog[n + 1].outcome.ok =>
                      /\ n + 2 <= Len(serverLog)
                      /\ serverLog[n + 2].request.site = "half2"
                      /\ ~serverLog[n + 2].outcome.ok =>
                            Len(serverLog) = n + 2 /\ exitCode = 1
                      /\ n + 3 <= Len(serverLog) => serverLog[n + 3].request.site = "post"

\* C19: once the run has ended, a batch of n > 1 entries that got a 413 was
\* followed by a request carrying its first ceil(n/2) entries and, that one
\* accepted, by a request carrying the others; neither is empty and together
\* they are the batch.
C19_Halving ==
    Ended =>
        \A n \in 1..Len(serverLog) :
            Rejected413(n) =>
                LET batch == serverLog[n].request.files
                    mid == (Len(batch) + 1) \div 2
                IN  /\ n + 1 <= Len(serverLog)
                    /\ serverLog[n + 1].request.files = SubSeq(batch, 1, mid)
                    /\ serverLog[n + 1].request.files # <<>>
                    /\ serverLog[n + 1].outcome.ok =>
                          /\ n + 2 <= Len(serverLog)
                          /\ serverLog[n + 2].request.files = SubSeq(batch, mid + 1, Len(batch))
                          /\ serverLog[n + 2].request.files # <<>>
                          /\ serverLog[n + 1].request.files \o serverLog[n + 2].request.files
                                = batch

\* C20: a 413 on a batch of exactly one entry is the last request of the run:
\* nothing is resubmitted, no half is made of it, the error goes the way of
\* every other failure and the run ends in the error exit.
C20_Single413Aborts ==
    \A n \in 1..Len(serverLog) :
        (/\ serverLog[n].request.site = "post"
         /\ Status(serverLog[n].outcome) = 413
         /\ Len(serverLog[n].request.files) = 1)
        =>
            /\ n = Len(serverLog)
            /\ inflight = <<>>
            /\ err = ApiError(AxiosMessage, 413)
            /\ pc \in {"catch", "throw", "exited"}
            /\ ~Succeeded
            /\ Ended => exitCode = 1 /\ stderr = <<"message">>

\* the second batch, of one entry, got a 413 after the first was accepted
C20_Witness ==
    /\ pc = "exited"
    /\ Len(serverLog) = 2
    /\ serverLog[1].outcome.ok
    /\ Status(serverLog[2].outcome) = 413
    /\ Len(serverLog[2].request.files) = 1
    /\ Len(batches) >= 3

----------------------------------------------------------------------------
(* Properties of a run whose only rejections are 413 *)

\* C21: a run in which the only rejected requests were first submissions of
\* multi-entry batches answered 413 (so every half was accepted) has ended
\* with the success message, exit code 0 and no error line.
C21_Split413NotAnError ==
    (/\ command = "index"
     /\ Ended
     /\ \E n \in 1..Len(serverLog) : Rejected413(n)
     /\ \A n \in 1..Len(serverLog) : ~serverLog[n].outcome.ok => Rejected413(n))
    =>
        /\ Succeeded
        /\ exitCode = 0
        /\ stderr = <<>>

----------------------------------------------------------------------------
(* More properties of batch construction *)

\* C22: for every two consecutive batches the estimated size of the earlier
\* one plus that of the first entry of the later one exceeds the ceiling: a
\* batch was closed only because the next entry did not fit.
C22_GreedyMaximal ==
    Batched =>
        \A j \in 1..(Len(batches) - 1) :
            BatchSize(batches[j]) + EntrySize(batches[j + 1][1]) > MAX_BATCH_BYTES

\* a batch closed by an entry that would have passed the ceiling by one byte,
\* and a batch that two entries fill exactly
C22_Witness ==
    /\ Batched
    /\ Len(batches) >= 2
    /\ \E j \in 1..(Len(batches) - 1) :
          BatchSize(batches[j]) + EntrySize(batches[j + 1][1]) = MAX_BATCH_BYTES + 1
    /\ \E j \in 1..Len(batches) :
          Len(batches[j]) = 2 /\ BatchSize(batches[j]) = MAX_BATCH_BYTES

\* C23: once the batches are built, the reported count of indexed files is
\* the number of entries in the batches whose submission has completed, the
\* reported batch index is the number of those batches, the totals are the
\* numbers of admitted entries and of batches; the count never exceeds the
\* number of admitted entries and equals it when the run has succeeded.
C23_ProgressCounter ==
    command = "index" /\ Batched /\ Len(allEntries) > 0 =>
        /\ indexed = EntriesBefore(i + 1)
        /\ spinnerText = SpinnerText(indexed, Len(allEntries), i, Len(batches))
        /\ i <= Len(batches)
        /\ indexed <= Len(allEntries)
        /\ Succeeded => indexed = Len(allEntries) /\ i = Len(batches)
        /\ Len(SelectSeq(serverLog, Accepted)) >= i

\* two batches, the first of them of two entries, are done and a third is left
C23_Witness ==
    /\ pc = "loop"
    /\ i = 2
    /\ Len(batches) >= 3
    /\ Len(batches[1]) = 2
    /\ spinnerText.indexed = 3
    /\ spinnerText.batch = 2

----------------------------------------------------------------------------
(* More properties of the directory walk *)

\* the rules skip neither the file nor a directory above it
NotIgnored(f) ==
    /\ ~Ignores(ig, f, FALSE)
    /\ \A a \in AncestorsOf(f) : ~Ignores(ig, a, FALSE) /\ ~Ignores(ig, a, TRUE)

\* C24: a regular file the rules do not skip is in the walk result if and
\* only if its size is at most 524288 bytes.
C24_SizeThreshold ==
    WalkReturned =>
        \A f \in DOMAIN fs :
            fs[f].kind = "file" /\ NotIgnored(f) =>
                (f \in Range(filePaths) <=> BufferLength(fs[f].content) <= 524288)

\* big.txt of exactly 524288 bytes is in the walk result, next to smaller files
C24_Witness ==
    /\ pc = "walked"
    /\ <<BIG_TXT>> \in DOMAIN fs
    /\ BufferLength(fs[<<BIG_TXT>>].content) = 524288
    /\ NotIgnored(<<BIG_TXT>>)
    /\ <<BIG_TXT>> \in Range(filePaths)
    /\ <<A_TXT>> \in Range(filePaths)

\* big.txt of 524289 bytes is not in the walk result, the smaller files are
C24_WitnessExcluded ==
    /\ pc = "walked"
    /\ <<BIG_TXT>> \in DOMAIN fs
    /\ BufferLength(fs[<<BIG_TXT>>].content) = 524289
    /\ NotIgnored(<<BIG_TXT>>)
    /\ <<BIG_TXT>> \notin Range(filePaths)
    /\ <<A_TXT>> \in Range(filePaths)

\* every directory above `path` was listed
Reached(path) == AncestorsOf(path) \subseteq listed

\* C25: a directory the walk comes to is listed unless the ignore predicate
\* matches its bare relative path or that path with a trailing slash; a
\* regular file is skipped only if the predicate matches its bare path, so a
\* file matched by nothing but a pattern with a trailing "/" is walked.
C25_DirectoryOnlyPatterns ==
    WalkReturned =>
        \A e \in DOMAIN fs \ {<<>>} :
            Reached(e) =>
                /\ fs[e].kind = "dir" =>
                      (e \in listed <=> ~(Ignores(ig, e, FALSE) \/ Ignores(ig, e, TRUE)))
                /\ fs[e].kind = "file" /\ BufferLength(fs[e].content) <= MAX_FILE_SIZE =>
                      (e \in Range(filePaths) <=> ~Ignores(ig, e, FALSE))

\* with the line "foo/" in .memo8ignore the regular file foo is in the walk result
C25_Witness ==
    /\ pc = "walked"
    /\ <<FOO>> \in DOMAIN fs
    /\ fs[<<FOO>>].kind = "file"
    /\ LinesOf(MEMO8IGNORE) = <<Line(FALSE, FOO, TRUE)>>
    /\ Ignores(ig, <<FOO>>, TRUE)
    /\ ~Ignores(ig, <<FOO>>, FALSE)
    /\ <<FOO>> \in Range(filePaths)

\* with the same line the directory foo is not listed and foo/c.txt not walked
C25_WitnessDirectory ==
    /\ pc = "walked"
    /\ <<FOO, C_TXT>> \in DOMAIN fs
    /\ LinesOf(MEMO8IGNORE) = <<Line(FALSE, FOO, TRUE)>>
    /\ <<FOO>> \notin listed
    /\ <<FOO, C_TXT>> \notin Range(filePaths)

\* the files of a depth-first pass through `dir` in the order of its listing
RECURSIVE WalkOf(_)
WalkOf(dir) ==
    LET entries == fs[dir].entries
        Part(c) ==
            LET rel == dir \o <<entries[c]>>
            IN  IF Ignores(ig, rel, FALSE) THEN <<>>
                ELSE IF fs[rel].kind = "dir"
                THEN IF Ignores(ig, rel, TRUE) THEN <<>> ELSE WalkOf(rel)
                ELSE IF fs[rel].kind = "file" /\ BufferLength(fs[rel].content) <= MAX_FILE_SIZE
                THEN <<rel>>
                ELSE <<>>
    IN  Flatten([c \in 1..Len(entries) |-> Part(c)])

\* the walk result holds each non-ignored regular file within the threshold
\* once, in depth-first order; no symbolic link is returned, listed or
\* descended through; the recursion is as deep as the directory it is in
WalkSinglePass ==
    /\ WalkReturned =>
          /\ filePaths = WalkOf(<<>>)
          /\ \A c1, c2 \in 1..Len(filePaths) : filePaths[c1] = filePaths[c2] => c1 = c2
          /\ \A f \in Range(filePaths) : fs[f].kind = "file"
          /\ \A f \in DOMAIN fs :
                fs[f].kind = "file" /\ NotIgnored(f) /\ BufferLength(fs[f].content) <= MAX_FILE_SIZE
                    => f \in Range(filePaths)
    /\ \A d \in listed : fs[d].kind = "dir"
    /\ \A c \in 1..Len(stack) : Len(stack[c].dir) = c - 1 /\ fs[stack[c].dir].kind = "dir"

WalkOver == pc \notin {"start", "load", "walk", "walking"}

\* C26: the walk ends on every tree, also on one with a symbolic link that
\* closes a cycle, and all along WalkSinglePass holds.
C26_WalkTerminates == [](WalkSinglePass) /\ <>(WalkOver)

\* the walk has returned b.txt from sub, which holds a link to the root
C26_Witness ==
    /\ pc = "walked"
    /\ <<SUB, LINK>> \in DOMAIN fs
    /\ fs[<<SUB, LINK>>].kind = "symlink"
    /\ ~Ignores(ig, <<SUB, LINK>>, FALSE)
    /\ <<SUB>> \in listed
    /\ <<SUB, B_TXT>> \in Range(filePaths)
    /\ <<FOO, C_TXT>> \in Range(filePaths)
    /\ Len(filePaths) >= 5

----------------------------------------------------------------------------
(* Properties of the guards of the index action *)

\* there is nothing to index: no project, an empty walk, or no file admitted
NothingToIndex ==
    \/ projectId = 0
    \/ WalkReturned /\ Len(filePaths) = 0
    \/ ReadDone /\ Len(allEntries) = 0

\* C27: with nothing to index the run makes no request, prints no error line
\* and does not take the error exit; it ends with exit code 0 after a warning.
C27_NoRequestWhenNothingToIndex ==
    command = "index" /\ NothingToIndex =>
        /\ Submitted = <<>>
        /\ stderr = <<>>
        /\ err = NoError
        /\ pc \in {"start", "walked", "read", "done"}
        /\ exitCode \in {-1, 0}
        /\ pc = "done" =>
              /\ exitCode = 0
              /\ stdout[Len(stdout)].level = "warn"
              /\ \A n \in 1..Len(stdout) : stdout[n].level # "success"

\* three files were walked, none was admitted, the run has ended
C27_Witness ==
    /\ pc = "done"
    /\ projectId # 0
    /\ Len(filePaths) = 3
    /\ allEntries = <<>>
    /\ serverLog = <<>>
    /\ stdout[Len(stdout)].level = "warn"

\* the line "*" in .memo8ignore left nothing to walk, the run has ended
C27_WitnessEmptyWalk ==
    /\ pc = "done"
    /\ projectId # 0
    /\ listed = {<<>>}
    /\ filePaths = <<>>
    /\ stdout = <<[level |-> "info", files |-> 0, batches |-> 0], Line_Warn>>

\* no project is configured, the run has ended
C27_WitnessNoProject ==
    /\ pc = "done"
    /\ projectId = 0
    /\ listed = {}
    /\ stdout = <<Line_Warn>>

----------------------------------------------------------------------------
(* Properties of the stored credentials *)

Answered401(n) == Status(serverLog[n].outcome) = 401

\* C28: once a request was answered 401, the global config has no token, no
\* user and no team id; its other keys are as they were; and the error the
\* awaiting caller got is an ApiError with status 401.  Without a 401 the
\* index run leaves the config alone.
C28_Unauthorized401ClearsAuth ==
    command = "index" =>
        /\ (\E n \in 1..Len(serverLog) : Answered401(n)) =>
              /\ globalConfig.token = Absent
              /\ globalConfig.user = Absent
              /\ globalConfig.teamId = Absent
              /\ globalConfig.apiUrl = LoggedInConfig.apiUrl
        /\ (\A n \in 1..Len(serverLog) : ~Answered401(n)) => globalConfig = LoggedInConfig
        /\ serverLog # <<>> /\ Answered401(Len(serverLog)) =>
              /\ err.name = "ApiError"
              /\ err.status = 401
              /\ pc \in {"catch", "throw", "exited"}

\* the second batch of an index run was answered 401 after the first was
\* accepted, and the catch block has the error
C28_Witness ==
    /\ command = "index"
    /\ pc = "catch"
    /\ Len(serverLog) = 2
    /\ serverLog[1].outcome.ok
    /\ Answered401(2)
    /\ globalConfig.token = Absent
    /\ globalConfig.apiUrl # Absent


\* the answer /logout got
LogoutOutcome == serverLog[1].outcome

\* C29: when `logout` has ended, the global config has no token and no user,
\* whatever the answer to /logout was; a success or a 401 ends with exit
\* code 0, and the error exit is taken only after another failure.
C29_LogoutAlwaysClears ==
    command = "logout" /\ pc \in {"done", "exited"} =>
        /\ globalConfig.token = Absent
        /\ globalConfig.user = Absent
        /\ Len(serverLog) = 1
        /\ pc = "exited" <=> exitCode = 1
        /\ LogoutOutcome.ok \/ Status(LogoutOutcome) = 401 => exitCode = 0
        /\ exitCode = 1 => ~LogoutOutcome.ok /\ Status(LogoutOutcome) # 401

\* /logout failed with a 500 while a token and a user were stored: the
\* command ended through the error exit and the credentials are gone
C29_Witness ==
    /\ command = "logout"
    /\ pc = "exited"
    /\ mdBefore = NoFile
    /\ Len(serverLog) = 1
    /\ Status(LogoutOutcome) = 500
    /\ exitCode = 1
    /\ stderr = <<"message">>
    /\ globalConfig.token = Absent
    /\ globalConfig.apiUrl # Absent

\* /logout was answered 401: the command ended with the success line
C29_Witness401 ==
    /\ command = "logout"
    /\ pc = "done"
    /\ Len(serverLog) = 1
    /\ Status(LogoutOutcome) = 401
    /\ exitCode = 0
    /\ stdout = <<Line_Success>>
    /\ globalConfig.token = Absent

----------------------------------------------------------------------------
(* getProjectId() called with any working directory of up to MaxDepth names *)
(* and anything as .memo8.json in it and in the directories above it        *)

InitLookup ==
    /\ pc = "lookup"
    /\ command = "getProjectId"
    /\ cwd \in Ancestors(DeepestCwd)
    /\ localFiles \in [Ancestors(cwd) -> LocalFileKinds]
    /\ lookupDir = cwd
    /\ consulted = {}
    /\ localConfig = EmptyConfig
    /\ projectId = 0
    /\ force = FALSE
    /\ answer = "none"
    /\ claudeMd = NoFile
    /\ mdBefore = NoFile
    /\ run = 1
    /\ firstScan = NoScan
    /\ globalConfig = LoggedInConfig
    /\ fs = <<>>
    /\ ig = <<>>
    /\ stack = <<>>
    /\ filePaths = <<>>
    /\ readPos = 1
    /\ listed = {}
    /\ allEntries = <<>>
    /\ k = 1
    /\ batches = <<>>
    /\ currentBatch = <<>>
    /\ currentSize = 0
    /\ i = 0
    /\ indexed = 0
    /\ spinnerText = SpinnerText(0, 0, 0, 0)
    /\ inflight = <<>>
    /\ serverLog = <<>>
    /\ err = NoError
    /\ stdout = <<>>
    /\ stderr = <<>>
    /\ exitCode = -1

NextLookup ==
    \/ LookupStep
    \/ LookupEnd
    \/ GetProjectId

\* the loop is an ordinary sequential loop: it takes its next step
SpecLocalConfig == InitLookup /\ [][NextLookup]_vars /\ WF_vars(NextLookup)

\* the directories from cwd upward, the root left out, that hold .memo8.json
Holders == {d \in Ancestors(cwd) \ {RootOf(cwd)} : localFiles[d] # "missing"}
\* the nearest of them
Nearest == CHOOSE d \in Holders : \A h \in Holders : Len(h) <= Len(d)
\* the directories from `from` up to cwd
DownTo(from) == {d \in Ancestors(cwd) : Len(d) >= Len(from)}

LookupOver == pc \in {"looked_up", "done"}

\* the result is the one of the nearest holder, which is the last directory
\* looked into; without a holder it is {} and every directory but the root
\* was looked into; the root never is
NearestDecides ==
    /\ RootOf(cwd) \notin consulted
    /\ consulted \subseteq Ancestors(cwd)
    /\ LookupOver =>
          IF Holders # {}
          THEN /\ consulted = DownTo(Nearest)
               /\ localConfig = IF localFiles[Nearest] = "project"
                                THEN [projectId |-> ProjectIdIn(Nearest)] ELSE EmptyConfig
          ELSE /\ consulted = Ancestors(cwd) \ {RootOf(cwd)}
               /\ localConfig = EmptyConfig
    /\ pc = "done" => projectId = localConfig.projectId

\* C30: loadLocalConfig walks upward from the current directory and ends;
\* the nearest directory with a .memo8.json decides the result, an
\* unparsable one gives {} without a look at a farther directory, and the
\* root directory is never looked into.
C30_LocalConfigLookup == [](NearestDecides) /\ <>(pc = "done")

\* from the deepest directory: nothing there, an unparsable file one up, a
\* config with a projectId above it and one in the root; the result is {}
\* and two directories were looked into
C30_Witness ==
    /\ command = "getProjectId"
    /\ pc = "done"
    /\ cwd = DeepestCwd
    /\ localFiles[cwd] = "missing"
    /\ localFiles[Dirname(cwd)] = "unparsable"
    /\ localFiles[Dirname(Dirname(cwd))] = "project"
    /\ localFiles[<<>>] = "project"
    /\ localConfig = EmptyConfig
    /\ projectId = 0
    /\ consulted = {cwd, Dirname(cwd)}

\* only the root directory has a config: the walk passes every directory
\* below it and returns {}
C30_WitnessRootOnly ==
    /\ command = "getProjectId"
    /\ pc = "done"
    /\ cwd = DeepestCwd
    /\ Holders = {}
    /\ localFiles[<<>>] = "project"
    /\ projectId = 0
    /\ Cardinality(consulted) = MaxDepth

============================================================================
